---- MODULE Spec2Model ----
(***************************************************************************)
(* Risk-network analysis pipeline (backend/app/services).                  *)
(*                                                                         *)
(* Each service method is modelled as its own state machine over the       *)
(* variables it owns; one specification per method draws the method's      *)
(* inputs in its initial state and then runs the method's steps:           *)
(*   SpecSimilarity  NLPService.find_similar_pairs                         *)
(*   SpecCluster     ClusteringService.cluster                             *)
(*   SpecLayout      LayoutService.compute_layout                          *)
(*   SpecKeywords    NLPService.extract_keywords                           *)
(*   SpecAnalyze     RiskAnalyzer.analyze                                  *)
(*   SpecSingleton   get_analyzer / NLPService(), concurrent first access  *)
(*   SpecSharedTfidf extract_keywords, concurrent requests                 *)
(*   SpecCombine     NLPService.combine_risk_text                          *)
(* Floating-point quantities are carried as integers (fixed point); the    *)
(* external libraries (HDBSCAN, UMAP, KMeans, silhouette, spring layout,   *)
(* TF-IDF) are collaborators whose outputs are chosen nondeterministically *)
(* within the contract the code relies on.                                 *)
(***************************************************************************)
EXTENDS Integers, Sequences, FiniteSets, TLC

VARIABLES
    \* ---- NLPService.find_similar_pairs ----
    embeddings,     \* the embedding matrix: row index (0-based) -> vector
    threshold,      \* minimum similarity to create an edge
    max_per_node,   \* maximum edges accepted per row
    sim_i,          \* the outer loop index i
    count,          \* the walk's counter, as left by the last row processed
    edge_set,       \* the set of (min, max, sim) tuples
    sim_pc,         \* "idle" | "loop" | "done"
    \* ---- ClusteringService.cluster ----
    n_samples,          \* embeddings.shape[0]
    n_features,         \* embeddings.shape[1]
    method,             \* "auto" | "hdbscan" | "kmeans"
    k_arg,              \* cluster()'s k: None or <<k>>
    min_cluster_size,   \* self.min_cluster_size
    min_samples,        \* self.min_samples
    cl_pc,              \* position inside cluster() and its callees
    calls,              \* strategies entered so far, in order
    umap,               \* "not_run" | "ok" | "failed"
    reduced,            \* cluster_hdbscan(): local `reduced`, None or <<matrix>>
    hdb_result,         \* cluster(): local `result`, None or <<ClusteringResult>>
    hdb_report,         \* what density clustering reported (lines 115-118)
    kmeans_k,           \* cluster_kmeans(): k, None or <<k>>
    find_k,             \* _find_optimal_k(): locals, None or <<record>>
    distances,          \* cluster_kmeans(): local `distances`, None or <<matrix>>
    result,             \* value returned by cluster(): None or <<ClusteringResult>>
    cl_error,           \* exception leaving cluster(): None or <<origin>>
    \* ---- LayoutService.compute_layout ----
    nodes,              \* the node ids, in list order (0-based)
    edges,              \* the (source, target, weight) tuples passed in
    cluster_labels,     \* cluster assignment for each node
    width,              \* canvas width
    height,             \* canvas height
    G,                  \* the networkx graph: [nodes, edges], or None
    solver,             \* spring_layout: "not_run" | "ok" | "failed"
    pos,                \* vertex -> (x, y) as placed, or None
    node_positions,     \* node id -> (x, y)
    cluster_positions,  \* cluster id -> (x, y)
    lay_i,              \* index of the overlap-resolution loop
    lay_pc,             \* position inside compute_layout()
    \* ---- NLPService.extract_keywords ----
    texts,              \* the combined risk texts, each as its set of terms
    kw_labels,          \* labels: cluster label of each text
    top_n,              \* number of keywords per cluster
    tfidf,              \* self._tfidf: None until fitted, then <<vocabulary>>
    tfidf_matrix,       \* document -> term -> weight
    unique_labels,      \* sorted(set(labels))
    keywords,           \* cluster id -> list of keywords
    kw_i,               \* index into unique_labels
    kw_pc,              \* position inside extract_keywords()
    \* ---- RiskAnalyzer.analyze ----
    risks,              \* request.risks as dicts, in list order (0-based)
    an_embeddings,      \* analyze(): local `embeddings`, None or <<matrix>>
    cluster_result,     \* analyze(): local `cluster_result`, None or <<result>>
    strategy,           \* the strategy that produced cluster_result
    similar_pairs,      \* analyze(): local `similar_pairs`
    layout_result,      \* analyze(): local `layout_result`, None or <<result>>
    an_keywords,        \* analyze(): local `keywords`, None or <<dict>>
    response,           \* the AnalysisResponse returned, None or <<response>>
    an_error,           \* the exception leaving analyze(), None or <<class>>
    stages,             \* the service calls made so far, in order
    an_pc,              \* position inside analyze()
    \* ---- first access to the singletons, by concurrent callers ----
    g_analyzer,         \* routes.py global _analyzer: None or <<analyzer>>
    cls_instance,       \* NLPService._instance: None or <<object id>>
    nlp_objects,        \* NLPService objects: id -> [model, tfidf] attributes
    constructions,      \* SentenceTransformer(...) constructions completed
    th_pc,              \* caller -> position inside get_analyzer()
    th_self,            \* caller -> the NLPService object __new__ gave it
    th_ret,             \* caller -> the analyzer get_analyzer() returned
    \* ---- extract_keywords on the shared vectorizer, concurrent requests ----
    shared_vocabulary,  \* self._tfidf.vocabulary_: None until a fit, then <<names>>
    rq_texts,           \* request -> its texts, each as its set of terms
    rq_names,           \* request -> local feature_names, None until read
    rq_keywords,        \* request -> the keyword list it returned, or None
    rq_pc,              \* request -> position inside extract_keywords()
    \* ---- NLPService.combine_risk_text ----
    cb_risk,            \* the risk dict passed in
    cb_text,            \* the string returned, None until it returns
    cb_pc               \* "idle" | "call" | "returned"

simVars == <<embeddings, threshold, max_per_node, sim_i, count, edge_set, sim_pc>>

clVars == <<n_samples, n_features, method, k_arg, min_cluster_size, min_samples,
            cl_pc, calls, umap, reduced, hdb_result, hdb_report, kmeans_k, find_k,
            distances, result, cl_error>>

layVars == <<nodes, edges, cluster_labels, width, height, G, solver, pos,
             node_positions, cluster_positions, lay_i, lay_pc>>

kwVars == <<texts, kw_labels, top_n, tfidf, tfidf_matrix, unique_labels, keywords,
            kw_i, kw_pc>>

anVars == <<risks, an_embeddings, cluster_result, strategy, similar_pairs,
            layout_result, an_keywords, response, an_error, stages, an_pc>>

sgVars == <<g_analyzer, cls_instance, nlp_objects, constructions, th_pc, th_self,
            th_ret>>

shVars == <<shared_vocabulary, rq_texts, rq_names, rq_keywords, rq_pc>>

cbVars == <<cb_risk, cb_text, cb_pc>>

vars == <<simVars, clVars, layVars, kwVars, anVars, sgVars, shVars, cbVars>>

\* What a step of one service leaves alone: the other services' variables.
SimFrame == UNCHANGED <<clVars, layVars, kwVars, anVars, sgVars, shVars, cbVars>>
ClusterFrame == UNCHANGED <<simVars, layVars, kwVars, anVars, sgVars, shVars, cbVars>>
LayoutFrame == UNCHANGED <<simVars, clVars, kwVars, anVars, sgVars, shVars, cbVars>>
KeywordsFrame == UNCHANGED <<simVars, clVars, layVars, anVars, sgVars, shVars, cbVars>>
AnalyzeFrame == UNCHANGED <<simVars, clVars, layVars, kwVars, sgVars, shVars, cbVars>>
SingletonFrame == UNCHANGED <<simVars, clVars, layVars, kwVars, anVars, shVars, cbVars>>
SharedFrame == UNCHANGED <<simVars, clVars, layVars, kwVars, anVars, sgVars, cbVars>>
CombineFrame == UNCHANGED <<simVars, clVars, layVars, kwVars, anVars, sgVars, shVars>>

\* Python's None, and an Optional holding a value.
None == <<>>
Some(v) == <<v>>

\* ------------------------------------------------------------------------
\* Bounds of the model
\* ------------------------------------------------------------------------
MaxN == 3             \* most rows of an embedding matrix
MaxCoord == 1         \* embedding components range over 0..MaxCoord
MaxThreshold == 2     \* thresholds range over 0..MaxThreshold
MaxPerNode == 2       \* max_per_node ranges over 1..MaxPerNode

Coords == 0..MaxCoord
Vectors == Coords \X Coords

Rows(E) == DOMAIN E

\* All matrices of n rows, rows indexed 0..n-1 as in the source.
Matrices(n) == [0..(n - 1) -> Vectors]

\* ------------------------------------------------------------------------
\* NLPService.compute_similarity_matrix / find_similar_pairs
\* ------------------------------------------------------------------------
Dot(u, v) == u[1] * v[1] + u[2] * v[2]

\* embeddings @ embeddings.T
compute_similarity_matrix(E) ==
    [i \in Rows(E) |-> [j \in Rows(E) |-> Dot(E[i], E[j])]]

\* sims = [(j, sim_matrix[i, j]) for j in range(n) if i != j], in ascending j
RECURSIVE SimsFrom(_, _, _, _)
SimsFrom(sm, i, j, n) ==
    IF j >= n THEN <<>>
    ELSE IF j = i THEN SimsFrom(sm, i, j + 1, n)
    ELSE <<[j |-> j, sim |-> sm[i][j]]>> \o SimsFrom(sm, i, j + 1, n)

\* list.sort(key=sim, reverse=True) is stable: equal keys keep their order.
RECURSIVE InsertDesc(_, _)
InsertDesc(x, s) ==
    IF s = <<>> THEN <<x>>
    ELSE IF Head(s).sim >= x.sim THEN <<Head(s)>> \o InsertDesc(x, Tail(s))
    ELSE <<x>> \o s

RECURSIVE SortDesc(_)
SortDesc(s) ==
    IF s = <<>> THEN <<>>
    ELSE InsertDesc(s[Len(s)], SortDesc(SubSeq(s, 1, Len(s) - 1)))

Min2(a, b) == IF a <= b THEN a ELSE b
Max2(a, b) == IF a >= b THEN a ELSE b

\* Mutant: the edge is stored as (i, j, sim), not in canonical order.
CanonicalEdge_Unordered(i, j, sim) == <<i, j, sim>>

\* edge = (min(i, j), max(i, j), float(sim))
CanonicalEdge(i, j, sim) == <<Min2(i, j), Max2(i, j), sim>>

\* Mutant: the cap is tested with > instead of >=, one entry too many.
RECURSIVE Walk_OffByOne(_, _, _, _, _, _)
Walk_OffByOne(i, sims, p, cnt, t, k) ==
    IF p > Len(sims) THEN [edges |-> {}, count |-> cnt]
    ELSE IF sims[p].sim < t THEN [edges |-> {}, count |-> cnt]
    ELSE IF cnt > k THEN [edges |-> {}, count |-> cnt]
    ELSE LET rest == Walk_OffByOne(i, sims, p + 1, cnt + 1, t, k)
         IN  [edges |-> {<<Min2(i, sims[p].j), Max2(i, sims[p].j), sims[p].sim>>}
                           \cup rest.edges,
              count |-> rest.count]

\* The inner for-loop over the sorted sims of row i: returns the edges added
\* and the final value of count.
RECURSIVE Walk(_, _, _, _, _, _)
Walk(i, sims, p, cnt, t, k) ==
    IF p > Len(sims) THEN [edges |-> {}, count |-> cnt]
    ELSE IF sims[p].sim < t THEN [edges |-> {}, count |-> cnt]
    ELSE IF cnt >= k THEN [edges |-> {}, count |-> cnt]
    ELSE LET rest == Walk(i, sims, p + 1, cnt + 1, t, k)
         IN  [edges |-> {CanonicalEdge(i, sims[p].j, sims[p].sim)} \cup rest.edges,
              count |-> rest.count]

SimIdle ==
    /\ embeddings = <<>>
    /\ threshold = 0
    /\ max_per_node = 1
    /\ sim_i = 0
    /\ count = 0
    /\ edge_set = {}
    /\ sim_pc = "idle"

SimStart ==
    /\ \E n \in 0..MaxN : embeddings \in Matrices(n)
    /\ threshold \in 0..MaxThreshold
    /\ max_per_node \in 1..MaxPerNode
    /\ sim_i = 0
    /\ count = 0
    /\ edge_set = {}
    /\ sim_pc = "loop"

\* One iteration of `for i in range(n)`.
SimRow ==
    /\ sim_pc = "loop"
    /\ sim_i < Cardinality(Rows(embeddings))
    /\ LET n == Cardinality(Rows(embeddings))
           sm == compute_similarity_matrix(embeddings)
           sims == SortDesc(SimsFrom(sm, sim_i, 0, n))
           w == Walk(sim_i, sims, 1, 0, threshold, max_per_node)
       IN  /\ edge_set' = edge_set \cup w.edges
           /\ count' = w.count
    /\ sim_i' = sim_i + 1
    /\ UNCHANGED <<embeddings, threshold, max_per_node, sim_pc>>
    /\ SimFrame

\* edges = list(edge_set); return edges
SimReturn ==
    /\ sim_pc = "loop"
    /\ sim_i >= Cardinality(Rows(embeddings))
    /\ sim_pc' = "done"
    /\ UNCHANGED <<embeddings, threshold, max_per_node, sim_i, count, edge_set>>
    /\ SimFrame

SimNext == SimRow \/ SimReturn


\* ------------------------------------------------------------------------
\* ClusteringService (clustering.py)
\* ------------------------------------------------------------------------
MaxSamples == 5         \* most samples handed to cluster()
MaxKArg == 4            \* cluster()'s k ranges over None and 1..MaxKArg
MaxMinClusterSize == 3  \* constructor's min_cluster_size ranges over 2..this
MaxMinSamples == 1      \* constructor's min_samples: None and 0..this
HdbMaxLabel == 1        \* density clustering labels range over -1..this

ProbOne == 100          \* fixed point: confidence 1.0
SmallSampleLimit == 3   \* cluster(): n_samples < 3
ReduceAboveDim == 50    \* cluster_hdbscan(): embeddings.shape[1] > 50
UmapMinSamples == 5     \* reduce_dimensions(): n_samples < 5
KRangeMin == 3          \* _find_optimal_k(): k_range[0]
KRangeMax == 15         \* _find_optimal_k(): k_range[1]

Methods == {"auto", "hdbscan", "kmeans"}
\* Embedding widths on both sides of the reduction test.
FeatureCounts == {ReduceAboveDim, ReduceAboveDim + 1}
\* Silhouette scores in tenths.  The mean silhouette of a labelling with at
\* least two labels is above -1: a sample scores -1 only if a whole other
\* cluster coincides with it, and the samples of that cluster then score >= 0.
Scores == {-9, 0, 10}
\* _find_optimal_k(): best_score = -1, in tenths
InitialBestScore == -10

\* Non-decreasing sequences of length n over lo..hi.  cluster() reads label
\* vectors only through set(labels) and counts, so the collaborators' label
\* vectors are drawn up to a permutation of the samples.
RECURSIVE SortedSeqs(_, _, _)
SortedSeqs(n, lo, hi) ==
    IF n = 0 THEN {<<>>}
    ELSE UNION {{<<v>> \o t : t \in SortedSeqs(n - 1, v, hi)} : v \in lo..hi}

\* A numpy vector of length n, indexed from 0.
Vec(n, s) == [i \in 0..(n - 1) |-> s[i + 1]]

LabelVectors(n, lo, hi) == {Vec(n, s) : s \in SortedSeqs(n, lo, hi)}

\* set(labels)
LabelSet(labels) == {labels[i] : i \in DOMAIN labels}

\* list(labels).count(-1), (labels == -1).sum()
NoiseCount(labels) == Cardinality({i \in DOMAIN labels : labels[i] = -1})

\* ClusteringService.__init__: self.min_samples = min_samples or min_cluster_size
InitMinSamples(ms_arg, mcs) ==
    IF ms_arg = None \/ ms_arg = Some(0) THEN mcs ELSE ms_arg[1]

\* Mutant: the override applies below 2 samples only.
IsSmallSample_Below2(n) == n < 2

\* cluster(): if n_samples < 3
IsSmallSample(n) == n < SmallSampleLimit

\* cluster(): the small-sample ClusteringResult
SmallSampleResult(n) ==
    [labels |-> [i \in 0..(n - 1) |-> 0],
     probabilities |-> [i \in 0..(n - 1) |-> ProbOne],
     n_clusters |-> 1,
     reduced_embeddings |-> None]

\* cluster(): if n_samples < self.min_cluster_size * 2
AdjustedMinClusterSize(n, mcs) ==
    IF n < mcs * 2 THEN Max2(2, n \div 2) ELSE mcs

\* Mutant: the adjustment leaves min_samples as configured.
AdjustedMinSamples_Keep(n, mcs, ms) == ms

\* cluster(), line 230: self.min_samples = self.min_cluster_size
AdjustedMinSamples(n, mcs, ms) ==
    IF n < mcs * 2 THEN Max2(2, n \div 2) ELSE ms

\* cluster(): if method == "kmeans" or (method == "auto" and k is not None)
GoesToKMeans(m, k) == m = "kmeans" \/ (m = "auto" /\ k # None)

\* cluster_hdbscan(): n_clusters = len(set(labels)) - (1 if -1 in labels else 0)
HdbscanNClusters(labels) ==
    Cardinality(LabelSet(labels)) - (IF -1 \in LabelSet(labels) THEN 1 ELSE 0)

\* Mutant: noise of exactly half the points already triggers the fallback.
NeedsFallback_AtHalf(r, n) == r.n_clusters < 2 \/ 2 * NoiseCount(r.labels) >= n

\* cluster(): result.n_clusters < 2 or (result.labels == -1).sum() > n_samples * 0.5
NeedsFallback(r, n) == r.n_clusters < 2 \/ 2 * NoiseCount(r.labels) > n

\* Mutant: UMAP is skipped below 4 samples only.
SkipsUmap_Below4(n) == n < 4

\* reduce_dimensions(): if n_samples < 5
SkipsUmap(n) == n < UmapMinSamples

\* reduce_dimensions(): the adjusted UMAP parameters (lines 64-67)
UmapParams(n, n_components, n_neighbors) ==
    [n_neighbors |-> Max2(2, Min2(n_neighbors, n - 1)),
     n_components |-> Max2(2, Min2(n_components, n - 2))]

\* cluster_kmeans(): probabilities = 1 - min_distances / (min_distances.max() + 1e-10)
MaxOf(v) == CHOOSE m \in {v[i] : i \in DOMAIN v} : \A i \in DOMAIN v : v[i] <= m

KMeansProbabilities(min_distances) ==
    LET mx == MaxOf(min_distances)
    IN  [i \in DOMAIN min_distances |->
            IF mx = 0 THEN ProbOne
            ELSE ProbOne - (min_distances[i] * ProbOne) \div mx]

\* Distances to the own centroid that KMeans.transform reports: all points on
\* their centroids, or at growing distances.
DistanceVectors(n) ==
    {[i \in 0..(n - 1) |-> 0], [i \in 0..(n - 1) |-> i]}

\* How much farther than its own centroid a point is from the other centroids.
CentroidGaps == {0, 2}

\* kmeans.transform(embeddings): the point-to-centroid distance matrices it
\* may return for these labels; a point's own centroid is its nearest.
TransformDistances(labels, k) ==
    {[i \in DOMAIN labels |->
         [c \in 0..(k - 1) |-> IF c = labels[i] THEN own[i] ELSE own[i] + gap]] :
       own \in DistanceVectors(Cardinality(DOMAIN labels)), gap \in CentroidGaps}

\* Mutant: the largest entry of each row is taken, not the smallest.
MinDistances_RowMax(D) ==
    [i \in DOMAIN D |-> MaxOf(D[i])]

\* cluster_kmeans(): min_distances = distances.min(axis=1)
MinDistances(D) ==
    [i \in DOMAIN D |->
        CHOOSE m \in {D[i][c] : c \in DOMAIN D[i]} : \A c \in DOMAIN D[i] : m <= D[i][c]]

\* Membership strengths HDBSCAN reports: 0 for noise, up to 1 for members.
HdbscanProbabilities(labels) ==
    {[i \in DOMAIN labels |-> IF labels[i] = -1 THEN 0 ELSE p] :
        p \in {ProbOne \div 2, ProbOne}}

ClusterIdle ==
    /\ n_samples = 0
    /\ n_features = 0
    /\ method = "auto"
    /\ k_arg = None
    /\ min_cluster_size = 0
    /\ min_samples = 0
    /\ cl_pc = "idle"
    /\ calls = <<>>
    /\ umap = "not_run"
    /\ reduced = None
    /\ hdb_result = None
    /\ hdb_report = None
    /\ kmeans_k = None
    /\ find_k = None
    /\ distances = None
    /\ result = None
    /\ cl_error = None

\* ClusteringService(min_cluster_size, min_samples, ...) followed by the
\* entry into cluster(embeddings, method, k).  analyze() returns before
\* clustering when there are no records, so n_samples >= 1.
ClusterStart ==
    /\ n_samples \in 1..MaxSamples
    /\ n_features \in FeatureCounts
    /\ method \in Methods
    /\ k_arg \in {None} \cup {Some(k) : k \in 1..MaxKArg}
    /\ min_cluster_size \in 2..MaxMinClusterSize
    /\ \E ms_arg \in {None} \cup {Some(m) : m \in 0..MaxMinSamples} :
          min_samples = InitMinSamples(ms_arg, min_cluster_size)
    /\ cl_pc = "cluster"
    /\ calls = <<>>
    /\ umap = "not_run"
    /\ reduced = None
    /\ hdb_result = None
    /\ hdb_report = None
    /\ kmeans_k = None
    /\ find_k = None
    /\ distances = None
    /\ result = None
    /\ cl_error = None

\* cluster(), lines 219-225: too few samples, everything in one cluster.
ClusterSmallSample ==
    /\ cl_pc = "cluster"
    /\ IsSmallSample(n_samples)
    /\ result' = Some(SmallSampleResult(n_samples))
    /\ cl_pc' = "returned"
    /\ UNCHANGED <<distances, n_samples, n_features, method, k_arg, min_cluster_size,
                   min_samples, calls, umap, reduced, hdb_result, hdb_report,
                   kmeans_k, find_k, cl_error>>
    /\ ClusterFrame

\* cluster(), lines 227-236: adjust the parameters, then enter a strategy.
ClusterDispatch ==
    /\ cl_pc = "cluster"
    /\ ~IsSmallSample(n_samples)
    /\ min_cluster_size' = AdjustedMinClusterSize(n_samples, min_cluster_size)
    /\ min_samples' = AdjustedMinSamples(n_samples, min_cluster_size, min_samples)
    /\ IF GoesToKMeans(method, k_arg)
       THEN /\ cl_pc' = "cluster_kmeans"
            /\ kmeans_k' = k_arg
            /\ calls' = Append(calls, "kmeans")
       ELSE /\ cl_pc' = "cluster_hdbscan"
            /\ kmeans_k' = kmeans_k
            /\ calls' = Append(calls, "hdbscan")
    /\ UNCHANGED <<distances, n_samples, n_features, method, k_arg, umap, reduced,
                   hdb_result, hdb_report, find_k, result, cl_error>>
    /\ ClusterFrame

\* cluster_hdbscan(), lines 94-97 with reduce_dimensions() inlined.
HdbscanNoReduce ==
    /\ cl_pc = "cluster_hdbscan"
    /\ \/ ~(n_features > ReduceAboveDim)
       \/ n_features > ReduceAboveDim /\ SkipsUmap(n_samples)
    /\ reduced' = Some("embeddings")
    /\ cl_pc' = "hdbscan_fit"
    /\ UNCHANGED <<distances, n_samples, n_features, method, k_arg, min_cluster_size,
                   min_samples, calls, umap, hdb_result, hdb_report, kmeans_k,
                   find_k, result, cl_error>>
    /\ ClusterFrame

\* reduce_dimensions(), lines 71-82: UMAP succeeds, or raises and is caught.
HdbscanReduce ==
    /\ cl_pc = "cluster_hdbscan"
    /\ n_features > ReduceAboveDim
    /\ ~SkipsUmap(n_samples)
    /\ \/ /\ umap' = "ok"
          /\ reduced' = Some("umap")
       \/ /\ umap' = "failed"
          /\ reduced' = Some("embeddings")
    /\ cl_pc' = "hdbscan_fit"
    /\ UNCHANGED <<distances, n_samples, n_features, method, k_arg, min_cluster_size,
                   min_samples, calls, hdb_result, hdb_report, kmeans_k, find_k,
                   result, cl_error>>
    /\ ClusterFrame

\* cluster_hdbscan(), lines 104-125: HDBSCAN returns labels and strengths.
HdbscanFit ==
    /\ cl_pc = "hdbscan_fit"
    /\ \E labels \in LabelVectors(n_samples, -1, HdbMaxLabel) :
       \E probs \in HdbscanProbabilities(labels) :
          /\ hdb_result' = Some([labels |-> labels,
                                 probabilities |-> probs,
                                 n_clusters |-> HdbscanNClusters(labels),
                                 reduced_embeddings |-> reduced])
          /\ hdb_report' = Some([n_clusters |-> HdbscanNClusters(labels),
                                 n_noise |-> NoiseCount(labels)])
    /\ cl_pc' = "hdbscan_done"
    /\ UNCHANGED <<distances, n_samples, n_features, method, k_arg, min_cluster_size,
                   min_samples, calls, umap, reduced, kmeans_k, find_k, result,
                   cl_error>>
    /\ ClusterFrame

\* cluster_hdbscan(), line 112: fit_predict raises; nothing up to analyze()
\* has a handler, so the exception leaves cluster().
HdbscanRaises ==
    /\ cl_pc = "hdbscan_fit"
    /\ cl_error' = Some("hdbscan")
    /\ cl_pc' = "raised"
    /\ UNCHANGED <<distances, n_samples, n_features, method, k_arg, min_cluster_size,
                   min_samples, calls, umap, reduced, hdb_result, hdb_report,
                   kmeans_k, find_k, result>>
    /\ ClusterFrame

\* cluster(), lines 239-246: keep the density result or fall back to K-Means.
ClusterKeepHdbscan ==
    /\ cl_pc = "hdbscan_done"
    /\ ~NeedsFallback(hdb_result[1], n_samples)
    /\ result' = hdb_result
    /\ cl_pc' = "returned"
    /\ UNCHANGED <<distances, n_samples, n_features, method, k_arg, min_cluster_size,
                   min_samples, calls, umap, reduced, hdb_result, hdb_report,
                   kmeans_k, find_k, cl_error>>
    /\ ClusterFrame

\* Mutant: a poor density result is answered by running density clustering
\* again instead of K-Means.
ClusterFallback_Retry ==
    /\ cl_pc = "hdbscan_done"
    /\ 2 * NoiseCount(hdb_result[1].labels) > n_samples
    /\ Len(calls) < 3
    /\ calls' = Append(calls, "hdbscan")
    /\ cl_pc' = "cluster_hdbscan"
    /\ UNCHANGED <<distances, n_samples, n_features, method, k_arg, min_cluster_size,
                   min_samples, umap, reduced, hdb_result, hdb_report,
                   kmeans_k, find_k, result, cl_error>>
    /\ ClusterFrame

ClusterFallback ==
    /\ cl_pc = "hdbscan_done"
    /\ NeedsFallback(hdb_result[1], n_samples)
    /\ kmeans_k' = None
    /\ calls' = Append(calls, "kmeans")
    /\ hdb_result' = None
    /\ cl_pc' = "cluster_kmeans"
    /\ UNCHANGED <<distances, n_samples, n_features, method, k_arg, min_cluster_size,
                   min_samples, umap, reduced, hdb_report, find_k, result,
                   cl_error>>
    /\ ClusterFrame


\* cluster_kmeans(), lines 140-141, k given by the caller.
KMeansGivenK ==
    /\ cl_pc = "cluster_kmeans"
    /\ kmeans_k # None
    /\ cl_pc' = "kmeans_fit"
    /\ UNCHANGED <<distances, n_samples, n_features, method, k_arg, min_cluster_size,
                   min_samples, calls, umap, reduced, hdb_result, hdb_report,
                   kmeans_k, find_k, result, cl_error>>
    /\ ClusterFrame

\* _find_optimal_k(): max_k = min(max_k, n_samples - 1)
FindKMaxK(n) == Min2(KRangeMax, n - 1)

\* _find_optimal_k(), lines 175-180: the range holds no candidate above min_k.
FindKTrivial ==
    /\ cl_pc = "cluster_kmeans"
    /\ kmeans_k = None
    /\ FindKMaxK(n_samples) <= KRangeMin
    /\ kmeans_k' = Some(KRangeMin)
    /\ cl_pc' = "kmeans_fit"
    /\ UNCHANGED <<distances, n_samples, n_features, method, k_arg, min_cluster_size,
                   min_samples, calls, umap, reduced, hdb_result, hdb_report,
                   find_k, result, cl_error>>
    /\ ClusterFrame

\* _find_optimal_k(), lines 182-185: enter the search loop.
FindKBegin ==
    /\ cl_pc = "cluster_kmeans"
    /\ kmeans_k = None
    /\ FindKMaxK(n_samples) > KRangeMin
    /\ find_k' = Some([k |-> KRangeMin, max_k |-> FindKMaxK(n_samples),
                       best_k |-> KRangeMin, best_score |-> InitialBestScore,
                       seen |-> <<>>])
    /\ cl_pc' = "find_k"
    /\ UNCHANGED <<distances, n_samples, n_features, method, k_arg, min_cluster_size,
                   min_samples, calls, umap, reduced, hdb_result, hdb_report,
                   kmeans_k, result, cl_error>>
    /\ ClusterFrame

\* What one iteration of the loop observed: None when the labelling was
\* skipped as degenerate, else <<score>>.
Observed(n_distinct, score) == IF n_distinct < 2 THEN None ELSE Some(score)

\* Mutant: a later candidate with an equal score replaces the best one.
FindKUpdate_GreaterEqual(f, n_distinct, score) ==
    IF n_distinct < 2
    THEN [f EXCEPT !.k = f.k + 1, !.seen = Append(f.seen, None)]
    ELSE IF score >= f.best_score
         THEN [f EXCEPT !.k = f.k + 1, !.best_score = score, !.best_k = f.k,
                        !.seen = Append(f.seen, Some(score))]
         ELSE [f EXCEPT !.k = f.k + 1, !.seen = Append(f.seen, Some(score))]

\* One candidate k: what the loop body leaves in best_k and best_score when
\* KMeans returned n_distinct distinct labels and the silhouette is score.
FindKUpdate(f, n_distinct, score) ==
    LET g == [f EXCEPT !.k = f.k + 1,
                       !.seen = Append(f.seen, Observed(n_distinct, score))]
    IN  IF n_distinct < 2 THEN g
        ELSE IF score > f.best_score
             THEN [g EXCEPT !.best_score = score, !.best_k = f.k]
             ELSE g

\* _find_optimal_k(), lines 185-195: one iteration of the search loop.
FindKStep ==
    /\ cl_pc = "find_k"
    /\ find_k[1].k <= find_k[1].max_k
    /\ \E n_distinct \in 1..find_k[1].k, score \in Scores :
          find_k' = Some(FindKUpdate(find_k[1], n_distinct, score))
    /\ UNCHANGED <<distances, n_samples, n_features, method, k_arg, min_cluster_size,
                   min_samples, cl_pc, calls, umap, reduced, hdb_result,
                   hdb_report, kmeans_k, result, cl_error>>
    /\ ClusterFrame

\* _find_optimal_k(), lines 197-198: return best_k.
FindKReturn ==
    /\ cl_pc = "find_k"
    /\ find_k[1].k > find_k[1].max_k
    /\ kmeans_k' = Some(find_k[1].best_k)
    /\ find_k' = None
    /\ cl_pc' = "kmeans_fit"
    /\ UNCHANGED <<distances, n_samples, n_features, method, k_arg, min_cluster_size,
                   min_samples, calls, umap, reduced, hdb_result, hdb_report,
                   result, cl_error>>
    /\ ClusterFrame

\* cluster_kmeans(): the ClusteringResult built from KMeans' output.
KMeansResult(labels, min_distances, k) ==
    [labels |-> labels,
     probabilities |-> KMeansProbabilities(min_distances),
     n_clusters |-> k,
     reduced_embeddings |-> None]

\* cluster_kmeans(), lines 145-165: KMeans labels every sample in 0..k-1.
KMeansFit ==
    /\ cl_pc = "kmeans_fit"
    /\ kmeans_k[1] <= n_samples
    /\ \E labels \in LabelVectors(n_samples, 0, kmeans_k[1] - 1) :
       \E D \in TransformDistances(labels, kmeans_k[1]) :
          /\ distances' = Some(D)
          /\ result' = Some(KMeansResult(labels, MinDistances(D), kmeans_k[1]))
    /\ cl_pc' = "returned"
    /\ UNCHANGED <<n_samples, n_features, method, k_arg, min_cluster_size,
                   min_samples, calls, umap, reduced, hdb_result, hdb_report,
                   kmeans_k, find_k, cl_error>>
    /\ ClusterFrame

\* cluster_kmeans(), line 152: KMeans rejects n_clusters > n_samples.
KMeansRaises ==
    /\ cl_pc = "kmeans_fit"
    /\ kmeans_k[1] > n_samples
    /\ cl_error' = Some("kmeans")
    /\ cl_pc' = "raised"
    /\ UNCHANGED <<distances, n_samples, n_features, method, k_arg, min_cluster_size,
                   min_samples, calls, umap, reduced, hdb_result, hdb_report,
                   kmeans_k, find_k, result>>
    /\ ClusterFrame

ClusterNext ==
    \/ ClusterSmallSample
    \/ ClusterDispatch
    \/ HdbscanNoReduce
    \/ HdbscanReduce
    \/ HdbscanFit
    \/ HdbscanRaises
    \/ ClusterKeepHdbscan
    \/ ClusterFallback
    \/ KMeansGivenK
    \/ FindKTrivial
    \/ FindKBegin
    \/ FindKStep
    \/ FindKReturn
    \/ KMeansFit
    \/ KMeansRaises

\* ------------------------------------------------------------------------
\* LayoutService.compute_layout (layout.py)
\* ------------------------------------------------------------------------
MaxNodes == 2          \* most nodes handed to compute_layout()
MaxLayoutLabel == 0    \* cluster labels range over -1..MaxLayoutLabel

CanvasWidth == 1000    \* width: float = 1000
CanvasHeight == 800    \* height: float = 800
\* The canvases a caller passes: the default one, and one a tenth as wide.
Canvases == {<<CanvasWidth, CanvasHeight>>, <<CanvasWidth \div 10, CanvasHeight \div 8>>}
MinDistance == 40      \* min_distance = 40

\* Coordinates are whole canvas units; a quotient a / b is rounded to the
\* nearest unit.
Round(a, b) == (2 * a + b) \div (2 * b)

Isqrt(v) == CHOOSE r \in 0..(10 * MinDistance) : r * r <= v /\ v < (r + 1) * (r + 1)

Abs(a) == IF a < 0 THEN -a ELSE a

NodeId(i) == <<"risk", i>>
\* cluster_node = f"__cluster_{cluster_id}__"
ClusterNode(c) == <<"__cluster__", c>>
IsClusterNode(v) == v[1] = "__cluster__"

\* unique_clusters = set(cluster_labels)
UniqueClusters(labels) == {labels[i] : i \in DOMAIN labels}

\* Lines 56-84: the graph handed to the solver.
BuildGraph(ns, es, labels) ==
    LET ids == {ns[i] : i \in DOMAIN ns}
        anchors == {ClusterNode(c) : c \in UniqueClusters(labels) \ {-1}}
    IN  [nodes |-> ids \cup anchors,
         edges |-> {<<e[1], e[2], e[3]>> : e \in {x \in es : x[1] \in ids /\ x[2] \in ids}}
                   \cup {<<ns[i], ClusterNode(labels[i]), "0.1">> :
                            i \in {j \in DOMAIN ns : labels[j] # -1}}]

\* Positions spring_layout may return: inside center +/- scale, with
\* scale = min(width, height) * 0.4; coincident, near and far points.
SpringScale(w, h) == (Min2(w, h) * 4) \div 10

SpringPoints(w, h) ==
    LET cx == w \div 2
        cy == h \div 2
    IN  {<<cx, cy>>, <<cx + 24, cy - 7>>,
         <<cx - SpringScale(w, h), cy + SpringScale(w, h)>>}

\* Points random_layout may return, in hundredths of the unit square.
UnitPoints == {<<0, 0>>, <<50, 50>>, <<52, 49>>, <<100, 100>>}

\* Mutant: the random position is stretched over the whole canvas.
ScaleToCanvas_Full(u, extent) == (u * extent) \div 100

\* Lines 110-113: x * width * 0.8 + width * 0.1, for u hundredths.
ScaleToCanvas(u, extent) == (u * extent * 8) \div 1000 + extent \div 10

\* Line 164-166: (cos, sin) of i * 2.39996, in thousandths.
GoldenAngle(i) ==
    CASE i = 0 -> <<1000, 0>>
      [] i = 1 -> <<-737, 675>>
      [] i = 2 -> <<87, -996>>
      [] i = 3 -> <<608, 794>>
      [] i = 4 -> <<-985, -174>>
      [] OTHER -> <<844, -537>>

\* Lines 127-137: centroid of the members for a cluster the solver did not place.
Centroid(c, ns, labels, npos) ==
    LET members == {i \in DOMAIN ns : labels[i] = c /\ ns[i] \in DOMAIN npos}
        sumx[S \in SUBSET members] ==
            IF S = {} THEN 0
            ELSE LET i == CHOOSE j \in S : TRUE
                 IN  npos[ns[i]][1] + sumx[S \ {i}]
        sumy[S \in SUBSET members] ==
            IF S = {} THEN 0
            ELSE LET i == CHOOSE j \in S : TRUE
                 IN  npos[ns[i]][2] + sumy[S \ {i}]
    IN  <<Round(sumx[members], Cardinality(members)),
          Round(sumy[members], Cardinality(members))>>

\* Lines 119-124.
ExtractNodePositions(p) ==
    [v \in {w \in DOMAIN p : ~IsClusterNode(w)} |-> p[v]]

\* Lines 119-137.
ExtractClusterPositions(p, ns, labels) ==
    LET placed == {v[2] : v \in {w \in DOMAIN p : IsClusterNode(w)}}
        missing == {c \in UniqueClusters(labels) \ {-1} :
                       /\ c \notin placed
                       /\ \E i \in DOMAIN ns :
                             labels[i] = c /\ ns[i] \in DOMAIN p}
    IN  [c \in placed \cup missing |->
            IF c \in placed THEN p[ClusterNode(c)]
            ELSE Centroid(c, ns, labels, ExtractNodePositions(p))]

\* Mutant: only nodes closer than half the minimum distance are pushed.
Spread_HalfDistance(i, node_pos, cluster_pos) ==
    LET dx == node_pos[1] - cluster_pos[1]
        dy == node_pos[2] - cluster_pos[2]
        d2 == dx * dx + dy * dy
        half == MinDistance \div 2
    IN  IF d2 >= half * half THEN node_pos
        ELSE <<cluster_pos[1] + MinDistance, cluster_pos[2]>>

\* Lines 155-173: where node i ends up, given its position and its cluster's.
Spread(i, node_pos, cluster_pos) ==
    LET dx == node_pos[1] - cluster_pos[1]
        dy == node_pos[2] - cluster_pos[2]
        d2 == dx * dx + dy * dy
    IN  IF d2 >= MinDistance * MinDistance THEN node_pos
        ELSE IF d2 = 0
        THEN <<cluster_pos[1] + Round(GoldenAngle(i)[1] * MinDistance, 1000),
               cluster_pos[2] + Round(GoldenAngle(i)[2] * MinDistance, 1000)>>
        ELSE LET ox == Round(Isqrt((dx * dx * MinDistance * MinDistance * 100) \div d2), 10)
                 oy == Round(Isqrt((dy * dy * MinDistance * MinDistance * 100) \div d2), 10)
             IN  <<cluster_pos[1] + (IF dx < 0 THEN -ox ELSE ox),
                   cluster_pos[2] + (IF dy < 0 THEN -oy ELSE oy)>>

LayoutIdle ==
    /\ nodes = <<>>
    /\ edges = {}
    /\ cluster_labels = <<>>
    /\ width = CanvasWidth
    /\ height = CanvasHeight
    /\ G = None
    /\ solver = "not_run"
    /\ pos = None
    /\ node_positions = <<>>
    /\ cluster_positions = <<>>
    /\ lay_i = 0
    /\ lay_pc = "idle"

\* Entry into compute_layout(nodes, edges, cluster_labels): nodes with unique
\* ids, one label per node, similarity edges between nodes.
LayoutStart ==
    /\ \E n \in 0..MaxNodes :
          /\ nodes = [i \in 0..(n - 1) |-> NodeId(i)]
          /\ cluster_labels \in [0..(n - 1) -> -1..MaxLayoutLabel]
          /\ edges \in (IF n >= 2 THEN {{}, {<<NodeId(0), NodeId(1), "w">>}}
                                  ELSE {{}})
    /\ \E c \in Canvases : width = c[1] /\ height = c[2]
    /\ G = None
    /\ solver = "not_run"
    /\ pos = None
    /\ node_positions = <<>>
    /\ cluster_positions = <<>>
    /\ lay_i = 0
    /\ lay_pc = "start"

\* Lines 53-54: no nodes.
LayoutEmpty ==
    /\ lay_pc = "start"
    /\ DOMAIN nodes = {}
    /\ lay_pc' = "returned"
    /\ UNCHANGED <<nodes, edges, cluster_labels, width, height, G, solver, pos, node_positions,
                   cluster_positions, lay_i>>
    /\ LayoutFrame

\* Lines 56-90.
LayoutBuildGraph ==
    /\ lay_pc = "start"
    /\ DOMAIN nodes # {}
    /\ G' = Some(BuildGraph(nodes, edges, cluster_labels))
    /\ lay_pc' = "solve"
    /\ UNCHANGED <<nodes, edges, cluster_labels, width, height, solver, pos, node_positions,
                   cluster_positions, lay_i>>
    /\ LayoutFrame

\* Lines 92-103: spring_layout places every vertex.
LayoutSpring ==
    /\ lay_pc = "solve"
    /\ pos' \in {Some(f) : f \in [G[1].nodes -> SpringPoints(width, height)]}
    /\ solver' = "ok"
    /\ lay_pc' = "extract"
    /\ UNCHANGED <<nodes, edges, cluster_labels, width, height, G, node_positions,
                   cluster_positions, lay_i>>
    /\ LayoutFrame

\* Lines 104-113: spring_layout raised; random_layout, scaled to the canvas.
LayoutRandomFallback ==
    /\ lay_pc = "solve"
    /\ \E unit \in [G[1].nodes -> UnitPoints] :
          pos' = Some([v \in G[1].nodes |->
                          <<ScaleToCanvas(unit[v][1], width),
                            ScaleToCanvas(unit[v][2], height)>>])
    /\ solver' = "failed"
    /\ lay_pc' = "extract"
    /\ UNCHANGED <<nodes, edges, cluster_labels, width, height, G, node_positions,
                   cluster_positions, lay_i>>
    /\ LayoutFrame

\* Lines 115-137.
LayoutExtract ==
    /\ lay_pc = "extract"
    /\ node_positions' = ExtractNodePositions(pos[1])
    /\ cluster_positions' = ExtractClusterPositions(pos[1], nodes, cluster_labels)
    /\ lay_i' = 0
    /\ lay_pc' = "spread"
    /\ UNCHANGED <<nodes, edges, cluster_labels, width, height, G, solver, pos>>
    /\ LayoutFrame

\* Lines 142-173: one iteration of the overlap-resolution loop.
LayoutSpreadNode ==
    /\ lay_pc = "spread"
    /\ lay_i \in DOMAIN nodes
    /\ LET cluster_id == cluster_labels[lay_i]
           node_id == nodes[lay_i]
       IN  IF \/ cluster_id = -1
              \/ node_id \notin DOMAIN node_positions
              \/ cluster_id \notin DOMAIN cluster_positions
           THEN node_positions' = node_positions
           ELSE node_positions' =
                   [node_positions EXCEPT
                       ![node_id] = Spread(lay_i, node_positions[node_id],
                                           cluster_positions[cluster_id])]
    /\ lay_i' = lay_i + 1
    /\ UNCHANGED <<nodes, edges, cluster_labels, width, height, G, solver, pos,
                   cluster_positions, lay_pc>>
    /\ LayoutFrame

\* Lines 175-178.
LayoutReturn ==
    /\ lay_pc = "spread"
    /\ lay_i \notin DOMAIN nodes
    /\ lay_pc' = "returned"
    /\ UNCHANGED <<nodes, edges, cluster_labels, width, height, G, solver, pos, node_positions,
                   cluster_positions, lay_i>>
    /\ LayoutFrame

LayoutNext ==
    \/ LayoutEmpty
    \/ LayoutBuildGraph
    \/ LayoutSpring
    \/ LayoutRandomFallback
    \/ LayoutExtract
    \/ LayoutSpreadNode
    \/ LayoutReturn

\* ------------------------------------------------------------------------
\* NLPService.extract_keywords (nlp.py)
\* ------------------------------------------------------------------------
MaxDocs == 2           \* most texts handed to extract_keywords()
MaxKwLabel == 0        \* cluster labels range over -1..MaxKwLabel
MaxTopN == 2           \* top_n ranges over 1..MaxTopN

\* The terms (unigrams and bigrams left after stop-word removal) a text may hold.
Terms == {"delay", "supplier"}
\* TF-IDF weights of a term present in a document, as positive whole numbers.
Weights == {1, 2}

\* Alphabetical order of the terms.
TermBefore(a, b) == a = "delay" /\ b = "supplier"

\* Number of documents holding term t.
DocFreq(t, docs) == Cardinality({d \in DOMAIN docs : t \in docs[d]})

\* TfidfVectorizer(min_df=1, max_df=0.95): fit raises when
\* max_df * n_docs < min_df.
DfBoundsInvalid(docs) == 95 * Cardinality(DOMAIN docs) < 100 * 1

\* The terms kept: min_df <= df <= max_df * n_docs.
Vocabulary(docs) ==
    {t \in Terms : /\ DocFreq(t, docs) >= 1
                   /\ 100 * DocFreq(t, docs) <= 95 * Cardinality(DOMAIN docs)}

\* Matrices fit_transform may return: a positive weight exactly where the
\* document holds the term.
TfidfMatrices(docs) ==
    {m \in [DOMAIN docs -> [Vocabulary(docs) -> {0} \cup Weights]] :
        \A d \in DOMAIN docs : \A t \in Vocabulary(docs) :
            (m[d][t] > 0) <=> (t \in docs[d])}

\* tfidf_matrix[indices].mean(axis=0): the members' weights of each term,
\* summed; the common divisor len(indices) does not change the order.
RECURSIVE SumOver(_, _, _)
SumOver(m, t, ds) ==
    IF ds = {} THEN 0
    ELSE LET d == CHOOSE x \in ds : TRUE
         IN  m[d][t] + SumOver(m, t, ds \ {d})

ClusterTfidf(m, lbls, label) ==
    [t \in DOMAIN m[CHOOSE d \in DOMAIN m : TRUE] |->
        SumOver(m, t, {i \in DOMAIN lbls : lbls[i] = label})]

\* The orders argsort() may return: ascending by weight, equal weights in any
\* order (numpy's default sort is not stable).
ArgsortOrders(w) ==
    {o \in [1..Cardinality(DOMAIN w) -> DOMAIN w] :
        /\ \A a, b \in DOMAIN o : a # b => o[a] # o[b]
        /\ \A a, b \in DOMAIN o : a < b => w[o[a]] <= w[o[b]]}

\* order[::-1][:top_n]
ReversedTop(o, n) ==
    [j \in 1..Min2(n, Len(o)) |-> o[Len(o) + 1 - j]]

\* Mutant: the noise label is ranked like any cluster.
KeywordsFor_NoNoiseCase(label, order, n) == ReversedTop(order, n)

\* Lines 205-221: the keyword list of one label.
KeywordsFor(label, order, n) ==
    IF label = -1 THEN <<"unclustered">> ELSE ReversedTop(order, n)

\* get_feature_names_out(): the vocabulary in alphabetical order.
RECURSIVE SortedListOfTerms(_)
SortedListOfTerms(S) ==
    IF S = {} THEN <<>>
    ELSE LET m == CHOOSE x \in S : \A y \in S : TermBefore(x, y) \/ x = y
         IN  <<m>> \o SortedListOfTerms(S \ {m})

\* sorted(set(labels))
RECURSIVE SortedList(_)
SortedList(S) ==
    IF S = {} THEN <<>>
    ELSE LET m == CHOOSE x \in S : \A y \in S : x <= y
         IN  <<m>> \o SortedList(S \ {m})

KeywordsIdle ==
    /\ texts = <<>>
    /\ kw_labels = <<>>
    /\ top_n = 1
    /\ tfidf = None
    /\ tfidf_matrix = <<>>
    /\ unique_labels = <<>>
    /\ keywords = <<>>
    /\ kw_i = 0
    /\ kw_pc = "idle"

\* Entry into extract_keywords(texts, labels, top_n): one label per text.
KeywordsStart ==
    /\ \E n \in 1..MaxDocs :
          /\ texts \in [0..(n - 1) -> SUBSET Terms]
          /\ kw_labels \in [0..(n - 1) -> -1..MaxKwLabel]
    /\ top_n \in 1..MaxTopN
    /\ tfidf = None
    /\ tfidf_matrix = <<>>
    /\ unique_labels = <<>>
    /\ keywords = <<>>
    /\ kw_i = 0
    /\ kw_pc = "fit"

\* Lines 197-203: fit the shared vectorizer on all texts.
KeywordsFit ==
    /\ kw_pc = "fit"
    /\ ~DfBoundsInvalid(texts)
    /\ Vocabulary(texts) # {}
    /\ tfidf_matrix' \in TfidfMatrices(texts)
    /\ tfidf' = Some(SortedListOfTerms(Vocabulary(texts)))
    /\ unique_labels' = SortedList({kw_labels[i] : i \in DOMAIN kw_labels})
    /\ kw_i' = 1
    /\ kw_pc' = "loop"
    /\ UNCHANGED <<texts, kw_labels, top_n, keywords>>
    /\ KeywordsFrame

\* Line 197: fit_transform raises (document-frequency bounds that exclude
\* each other, or no term left); the exception leaves extract_keywords().
KeywordsFitRaises ==
    /\ kw_pc = "fit"
    /\ DfBoundsInvalid(texts) \/ Vocabulary(texts) = {}
    /\ kw_pc' = "raised"
    /\ UNCHANGED <<texts, kw_labels, top_n, tfidf, tfidf_matrix, unique_labels,
                   keywords, kw_i>>
    /\ KeywordsFrame

\* Lines 204-221: one iteration of `for label in unique_labels`.
KeywordsLabel ==
    /\ kw_pc = "loop"
    /\ kw_i <= Len(unique_labels)
    /\ LET label == unique_labels[kw_i]
       IN  \E order \in ArgsortOrders(ClusterTfidf(tfidf_matrix, kw_labels, label)) :
              keywords' = [l \in DOMAIN keywords \cup {label} |->
                              IF l = label THEN KeywordsFor(label, order, top_n)
                              ELSE keywords[l]]
    /\ kw_i' = kw_i + 1
    /\ UNCHANGED <<texts, kw_labels, top_n, tfidf, tfidf_matrix, unique_labels, kw_pc>>
    /\ KeywordsFrame

\* Line 223.
KeywordsReturn ==
    /\ kw_pc = "loop"
    /\ kw_i > Len(unique_labels)
    /\ kw_pc' = "returned"
    /\ UNCHANGED <<texts, kw_labels, top_n, tfidf, tfidf_matrix, unique_labels,
                   keywords, kw_i>>
    /\ KeywordsFrame

KeywordsNext ==
    \/ KeywordsFit
    \/ KeywordsFitRaises
    \/ KeywordsLabel
    \/ KeywordsReturn

\* ------------------------------------------------------------------------
\* NLPService.combine_risk_text / embed_risks (nlp.py)
\* ------------------------------------------------------------------------
MaxRisks == 3          \* most records in a request

\* A text is the sequence of its whitespace characters (" ") and words; the
\* empty sequence stands for "" and for an absent (None) field alike, both
\* being falsy where the code tests them.
Space == " "
MarkerWords == {"na", "n/a", "nan", "none"}

\* str.lower() of one word.
LowerWord(w) == IF w = "N/A" THEN "n/a" ELSE w

\* text.split(): the words, in order.
SplitWords(text) == SelectSeq(text, LAMBDA c : c # Space)

\* " ".join(parts) for a list of texts.
RECURSIVE JoinSpace(_)
JoinSpace(parts) ==
    IF parts = <<>> THEN <<>>
    ELSE IF Len(parts) = 1 THEN parts[1]
    ELSE parts[1] \o <<Space>> \o JoinSpace(Tail(parts))

\* str.strip()
RECURSIVE Strip(_)
Strip(text) ==
    IF text = <<>> THEN <<>>
    ELSE IF Head(text) = Space THEN Strip(Tail(text))
    ELSE IF text[Len(text)] = Space THEN Strip(SubSeq(text, 1, Len(text) - 1))
    ELSE text

\* clean_text(), lines 47-53.
clean_text(text) ==
    IF text = <<>> \/ (Len(text) = 1 /\ LowerWord(text[1]) \in MarkerWords)
    THEN <<>>
    ELSE Strip(JoinSpace([k \in 1..Len(SplitWords(text)) |-> <<SplitWords(text)[k]>>]))

\* combine_risk_text(), lines 43-72.
combine_risk_text(risk) ==
    LET title == IF risk.title # <<>> /\ clean_text(risk.title) # <<>>
                 THEN <<clean_text(risk.title), clean_text(risk.title)>> ELSE <<>>
        cause == IF risk.cause # <<>> /\ clean_text(risk.cause) # <<>>
                 THEN <<clean_text(risk.cause)>> ELSE <<>>
        desc  == IF risk.description # <<>> /\ clean_text(risk.description) # <<>>
                 THEN <<clean_text(risk.description)>> ELSE <<>>
    IN  Strip(JoinSpace(title \o cause \o desc))

\* The values a text field of a record may carry: absent or "", blank, a
\* marker, a marker inside whitespace, one word, two words with repeated
\* whitespace.
FieldValues ==
    {<<>>, <<Space>>, <<"N/A">>, <<Space, "N/A", Space>>, <<"delay">>,
     <<"supplier", Space, Space, "delay">>}

CombineIdle ==
    /\ cb_risk = <<>>
    /\ cb_text = None
    /\ cb_pc = "idle"

\* Entry into combine_risk_text(risk).
CombineStart ==
    /\ cb_risk \in [title : FieldValues, cause : FieldValues, description : FieldValues]
    /\ cb_text = None
    /\ cb_pc = "call"

\* combine_risk_text(), lines 45-72: the call runs and returns its string.
CombineReturn ==
    /\ cb_pc = "call"
    /\ cb_text' = Some(combine_risk_text(cb_risk))
    /\ cb_pc' = "returned"
    /\ UNCHANGED cb_risk
    /\ CombineFrame

CombineNext == CombineReturn

\* Embedding rows in tenths: encode(normalize_embeddings=True) returns rows of
\* norm 1, np.zeros rows of norm 0.
UnitVectors == {<<10, 0>>, <<6, 8>>}
ZeroVector == <<0, 0>>

\* embed_risks(), line 86: valid_indices
ValidIndices(txts) == {i \in DOMAIN txts : Strip(txts[i]) # <<>>}

\* Mutant: the test for an all-empty request is missing.
NoValidTexts_Never(txts) == FALSE

\* embed_risks(), line 99: if not valid_texts
NoValidTexts(txts) == ValidIndices(txts) = {}

\* embed_risks(), lines 103-116: the encoder's rows at the valid indices,
\* zero rows elsewhere.  enc is the encoder: text -> unit vector.
FullEmbeddings(txts, enc) ==
    [i \in DOMAIN txts |->
        IF i \in ValidIndices(txts) THEN enc[txts[i]] ELSE ZeroVector]

\* The matrices embed_risks() may return for these risks.
EmbedRisks(rs) ==
    LET txts == [i \in DOMAIN rs |-> combine_risk_text(rs[i])]
        valid == {txts[i] : i \in ValidIndices(txts)}
    IN  {FullEmbeddings(txts, enc) : enc \in [valid -> UnitVectors]}

\* ------------------------------------------------------------------------
\* RiskAnalyzer.analyze (analyzer.py)
\* ------------------------------------------------------------------------
DefaultThreshold == 40     \* SimilarityParams.threshold = 0.4, in hundredths
DefaultMaxEdges == 5       \* SimilarityParams.max_edges_per_node = 5
MembershipWeight == 30     \* weight=0.3, in hundredths
DefaultPosition == <<500, 400>>

\* The descriptions a record may carry: blank, one word, two words with
\* repeated whitespace.
Descriptions == {<<Space>>, <<"delay">>, <<"supplier", Space, Space, "delay">>}

\* r.model_dump(by_alias=True): the external id is under "id".
RiskDict(i, d) == [id |-> NodeId(i), title |-> <<>>, cause |-> <<>>, description |-> d]

\* _find_optimal_k(): the values it may return for n samples.
OptimalKs(n) ==
    IF FindKMaxK(n) <= KRangeMin THEN {KRangeMin} ELSE KRangeMin..FindKMaxK(n)

\* cluster(embeddings) with method="auto", k=None: the results it may return,
\* each with the strategy that produced it.
ClusterOutcomes(n) ==
    IF IsSmallSample(n)
    THEN {[result |-> [labels |-> SmallSampleResult(n).labels,
                       n_clusters |-> SmallSampleResult(n).n_clusters],
           used |-> "single"]}
    ELSE UNION {
        LET r == [labels |-> h, n_clusters |-> HdbscanNClusters(h)]
        IN  IF NeedsFallback(r, n)
            THEN {[result |-> [labels |-> l, n_clusters |-> k], used |-> "kmeans"] :
                     <<k, l>> \in {kl \in OptimalKs(n) \X [0..(n - 1) -> 0..(n - 1)] :
                                     /\ kl[1] <= n
                                     /\ \A i \in 0..(n - 1) : kl[2][i] < kl[1]}}
            ELSE {[result |-> r, used |-> "hdbscan"]}
        : h \in [0..(n - 1) -> -1..HdbMaxLabel]}

\* Whether cluster() can raise on n samples: past the small-sample return
\* nothing catches an exception of the density clusterer.
ClusterMayRaise(n) == ~IsSmallSample(n)

\* find_similar_pairs(embeddings, threshold, max_per_node), as one value.
find_similar_pairs(E, t, k) ==
    LET n == Cardinality(Rows(E))
        sm == compute_similarity_matrix(E)
    IN  UNION {Walk(i, SortDesc(SimsFrom(sm, i, 0, n)), 1, 0, t, k).edges : i \in Rows(E)}

\* list(edge_set): the set's elements in the order iteration yields them.
RECURSIVE ListOfSet(_)
ListOfSet(S) ==
    IF S = {} THEN <<>>
    ELSE LET e == CHOOSE x \in S : TRUE
         IN  <<e>> \o ListOfSet(S \ {e})

\* Lines 93-101: similarity tuples to Edge objects.
SimilarityEdges(rs, pairs) ==
    LET ps == ListOfSet(pairs)
    IN  [k \in 1..Len(ps) |->
            [source |-> rs[ps[k][1]].id, target |-> rs[ps[k][2]].id,
             weight |-> ps[k][3], edge_type |-> "similarity"]]

\* compute_layout(nodes=risks, ...): the position it returned for a vertex,
\* carried as an opaque value.
PlacedAt(v) == <<"position", v>>

LayoutOutcome(rs, labels) ==
    [positions |-> [v \in {rs[i].id : i \in DOMAIN rs} |-> PlacedAt(v)],
     cluster_positions |-> [c \in UniqueClusters(labels) \ {-1} |->
                               PlacedAt(ClusterNode(c))]]

\* The terms the vectorizer finds in a text.
TermsOf(text) == {text[k] : k \in DOMAIN text} \cap Terms

\* extract_keywords(texts, labels, top_n=4): the list it returned for a
\* non-noise label, carried as an opaque non-empty value.
KeywordsOf(c) == <<"keywords", c>>

KeywordsOutcome(labels) ==
    [c \in LabelSet(labels) |-> IF c = -1 THEN <<"unclustered">> ELSE KeywordsOf(c)]

\* dict.get(key, default)
Get(d, key, default) == IF key \in DOMAIN d THEN d[key] ELSE default

\* Mutant: no ClusterInfo is built for the noise label.
BuildClusters_SkipsNoise(labels, kws, lay) ==
    LET ids == SortedList(LabelSet(labels) \ {-1})
    IN  [k \in 1..Len(ids) |->
            [id |-> ids[k],
             keywords |-> Get(kws, ids[k], <<>>),
             size |-> Cardinality({i \in DOMAIN labels : labels[i] = ids[k]}),
             pos |-> Get(lay.cluster_positions, ids[k], DefaultPosition)]]

\* Lines 125-148: one ClusterInfo per sorted(set(labels)).
BuildClusters(labels, kws, lay) ==
    LET ids == SortedList(LabelSet(labels))
    IN  [k \in 1..Len(ids) |->
            [id |-> ids[k],
             keywords |-> Get(kws, ids[k], <<>>),
             size |-> Cardinality({i \in DOMAIN labels : labels[i] = ids[k]}),
             pos |-> Get(lay.cluster_positions, ids[k], DefaultPosition)]]

\* Lines 150-170: one RiskResponse per risk, in order.
BuildNodes(rs, labels, lay) ==
    [i \in DOMAIN rs |->
        [id |-> rs[i].id,
         cluster |-> labels[i],
         pos |-> Get(lay.positions, rs[i].id, DefaultPosition)]]

\* Mutant: a membership edge is added for noise nodes too.
HasMembershipEdge_AlsoNoise(node, clusters) ==
    \E k \in DOMAIN clusters : clusters[k].id = node.cluster

\* Lines 174-178: the node is clustered and its ClusterInfo exists.
HasMembershipEdge(node, clusters) ==
    /\ node.cluster # -1
    /\ \E k \in DOMAIN clusters : clusters[k].id = node.cluster

\* Lines 172-186: the membership edges of nodes i..n-1, in node order.
RECURSIVE MembershipEdges(_, _, _)
MembershipEdges(ns, clusters, i) ==
    IF i \notin DOMAIN ns THEN <<>>
    ELSE (IF HasMembershipEdge(ns[i], clusters)
          THEN <<[source |-> <<"cluster_", ns[i].cluster>>, target |-> ns[i].id,
                  weight |-> MembershipWeight, edge_type |-> "membership"]>>
          ELSE <<>>)
         \o MembershipEdges(ns, clusters, i + 1)

\* Line 199: "clustering_method": "hdbscan"
ClusteringMethodName(used) == "hdbscan"

\* Lines 193-202.
BuildResponse(rs, cr, used, pairs, lay, kws) ==
    LET clusters == BuildClusters(cr.labels, kws, lay)
        ns == BuildNodes(rs, cr.labels, lay)
    IN  [nodes |-> ns,
         edges |-> SimilarityEdges(rs, pairs) \o MembershipEdges(ns, clusters, 0),
         clusters |-> clusters,
         metadata |-> [embedding_model |-> Len(ZeroVector),
                       clustering_method |-> ClusteringMethodName(used),
                       n_noise_points |-> NoiseCount(cr.labels)]]

\* Line 67: AnalysisResponse(nodes=[], edges=[], clusters=[])
EmptyResponse == [nodes |-> <<>>, edges |-> <<>>, clusters |-> <<>>, metadata |-> <<>>]

\* Mutant: the empty request is not short-circuited.
IsEmptyRequest_Never(rs) == FALSE

\* Line 66: if n_risks == 0
IsEmptyRequest(rs) == DOMAIN rs = {}

AnalyzeIdle ==
    /\ risks = <<>>
    /\ an_embeddings = None
    /\ cluster_result = None
    /\ strategy = "none"
    /\ similar_pairs = {}
    /\ layout_result = None
    /\ an_keywords = None
    /\ response = None
    /\ an_error = None
    /\ stages = <<>>
    /\ an_pc = "idle"

\* Entry into analyze(request): records with unique ids.
AnalyzeStart ==
    /\ \E n \in 0..MaxRisks :
       \E ds \in [0..(n - 1) -> Descriptions] :
          risks = [i \in 0..(n - 1) |-> RiskDict(i, ds[i])]
    /\ an_embeddings = None
    /\ cluster_result = None
    /\ strategy = "none"
    /\ similar_pairs = {}
    /\ layout_result = None
    /\ an_keywords = None
    /\ response = None
    /\ an_error = None
    /\ stages = <<>>
    /\ an_pc = "start"

\* Lines 66-67.
AnalyzeEmpty ==
    /\ an_pc = "start"
    /\ IsEmptyRequest(risks)
    /\ response' = Some(EmptyResponse)
    /\ an_pc' = "returned"
    /\ UNCHANGED <<risks, an_embeddings, cluster_result, strategy, similar_pairs,
                   layout_result, an_keywords, an_error, stages>>
    /\ AnalyzeFrame

\* Line 71: embed_risks(risks) returns.
AnalyzeEmbed ==
    /\ an_pc = "start"
    /\ ~IsEmptyRequest(risks)
    /\ ~NoValidTexts([i \in DOMAIN risks |-> combine_risk_text(risks[i])])
    /\ \E E \in EmbedRisks(risks) : an_embeddings' = Some(E)
    /\ stages' = Append(stages, "embed")
    /\ an_pc' = "cluster"
    /\ UNCHANGED <<risks, cluster_result, strategy, similar_pairs, layout_result,
                   an_keywords, response, an_error>>
    /\ AnalyzeFrame

\* Line 71: embed_risks(risks) raises ValueError (nlp.py line 100).
AnalyzeEmbedRaises ==
    /\ an_pc = "start"
    /\ ~IsEmptyRequest(risks)
    /\ NoValidTexts([i \in DOMAIN risks |-> combine_risk_text(risks[i])])
    /\ stages' = Append(stages, "embed")
    /\ an_error' = Some("ValueError")
    /\ an_pc' = "raised"
    /\ UNCHANGED <<risks, an_embeddings, cluster_result, strategy, similar_pairs,
                   layout_result, an_keywords, response>>
    /\ AnalyzeFrame

\* Lines 76-77: cluster(embeddings) returns.
AnalyzeCluster ==
    /\ an_pc = "cluster"
    /\ \E o \in ClusterOutcomes(Cardinality(DOMAIN risks)) :
          /\ cluster_result' = Some(o.result)
          /\ strategy' = o.used
    /\ stages' = Append(stages, "cluster")
    /\ an_pc' = "similarity"
    /\ UNCHANGED <<risks, an_embeddings, similar_pairs, layout_result, an_keywords,
                   response, an_error>>
    /\ AnalyzeFrame

\* Line 77: an exception of the clusterer leaves cluster() and analyze().
AnalyzeClusterRaises ==
    /\ an_pc = "cluster"
    /\ ClusterMayRaise(Cardinality(DOMAIN risks))
    /\ stages' = Append(stages, "cluster")
    /\ an_error' = Some("Exception")
    /\ an_pc' = "raised"
    /\ UNCHANGED <<risks, an_embeddings, cluster_result, strategy, similar_pairs,
                   layout_result, an_keywords, response>>
    /\ AnalyzeFrame

\* Lines 85-89.
AnalyzeSimilarity ==
    /\ an_pc = "similarity"
    /\ similar_pairs' = find_similar_pairs(an_embeddings[1], DefaultThreshold,
                                           DefaultMaxEdges)
    /\ stages' = Append(stages, "similarity")
    /\ an_pc' = "layout"
    /\ UNCHANGED <<risks, an_embeddings, cluster_result, strategy, layout_result,
                   an_keywords, response, an_error>>
    /\ AnalyzeFrame

\* Lines 105-112: compute_layout() catches its solver's failure and returns.
AnalyzeLayout ==
    /\ an_pc = "layout"
    /\ layout_result' = Some(LayoutOutcome(risks, cluster_result[1].labels))
    /\ stages' = Append(stages, "layout")
    /\ an_pc' = "keywords"
    /\ UNCHANGED <<risks, an_embeddings, cluster_result, strategy, similar_pairs,
                   an_keywords, response, an_error>>
    /\ AnalyzeFrame

\* Lines 118-123: extract_keywords() returns.
AnalyzeKeywords ==
    /\ an_pc = "keywords"
    /\ LET docs == [i \in DOMAIN risks |-> TermsOf(combine_risk_text(risks[i]))]
       IN  ~DfBoundsInvalid(docs) /\ Vocabulary(docs) # {}
    /\ an_keywords' = Some(KeywordsOutcome(cluster_result[1].labels))
    /\ stages' = Append(stages, "keywords")
    /\ an_pc' = "respond"
    /\ UNCHANGED <<risks, an_embeddings, cluster_result, strategy, similar_pairs,
                   layout_result, response, an_error>>
    /\ AnalyzeFrame

\* Lines 119-123: fit_transform raises ValueError inside extract_keywords().
AnalyzeKeywordsRaises ==
    /\ an_pc = "keywords"
    /\ LET docs == [i \in DOMAIN risks |-> TermsOf(combine_risk_text(risks[i]))]
       IN  DfBoundsInvalid(docs) \/ Vocabulary(docs) = {}
    /\ stages' = Append(stages, "keywords")
    /\ an_error' = Some("ValueError")
    /\ an_pc' = "raised"
    /\ UNCHANGED <<risks, an_embeddings, cluster_result, strategy, similar_pairs,
                   layout_result, an_keywords, response>>
    /\ AnalyzeFrame

\* Lines 125-202: build and return the response.
AnalyzeRespond ==
    /\ an_pc = "respond"
    /\ response' = Some(BuildResponse(risks, cluster_result[1], strategy,
                                      similar_pairs, layout_result[1], an_keywords[1]))
    /\ an_pc' = "returned"
    /\ UNCHANGED <<risks, an_embeddings, cluster_result, strategy, similar_pairs,
                   layout_result, an_keywords, an_error, stages>>
    /\ AnalyzeFrame

AnalyzeNext ==
    \/ AnalyzeEmpty
    \/ AnalyzeEmbed
    \/ AnalyzeEmbedRaises
    \/ AnalyzeCluster
    \/ AnalyzeClusterRaises
    \/ AnalyzeSimilarity
    \/ AnalyzeLayout
    \/ AnalyzeKeywords
    \/ AnalyzeKeywordsRaises
    \/ AnalyzeRespond

\* ------------------------------------------------------------------------
\* First access to the process-wide singletons: get_analyzer() (routes.py),
\* RiskAnalyzer.__init__ (analyzer.py), NLPService.__new__ / __init__ (nlp.py)
\* ------------------------------------------------------------------------
MaxCallers == 2        \* callers resolving get_analyzer() concurrently

Callers == 1..MaxCallers

\* What the startup hook (main.py, lines 59-66) left behind: the service
\* loaded; the load raised and was only logged (the object exists, without a
\* model); or the hook did not run.
StartupOutcomes == {"loaded", "failed", "not_run"}

\* self._model: the instance attribute, else the class attribute (None).
ModelOf(objs, o) == objs[o].model

SingletonIdle ==
    /\ g_analyzer = None
    /\ cls_instance = None
    /\ nlp_objects = <<>>
    /\ constructions = 0
    /\ th_pc = <<>>
    /\ th_self = <<>>
    /\ th_ret = <<>>

SingletonStart ==
    /\ g_analyzer = None
    /\ \E startup \in StartupOutcomes :
          CASE startup = "loaded" ->
                  /\ cls_instance = Some(0)
                  /\ nlp_objects = (0 :> [model |-> Some(0), tfidf |-> TRUE])
                  /\ constructions = 1
            [] startup = "failed" ->
                  /\ cls_instance = Some(0)
                  /\ nlp_objects = (0 :> [model |-> None, tfidf |-> FALSE])
                  /\ constructions = 0
            [] OTHER ->
                  /\ cls_instance = None
                  /\ nlp_objects = <<>>
                  /\ constructions = 0
    /\ th_pc = [t \in Callers |-> "check"]
    /\ th_self = [t \in Callers |-> None]
    /\ th_ret = [t \in Callers |-> None]

\* routes.py line 28: if _analyzer is None
GetAnalyzerCheck(t) ==
    /\ th_pc[t] = "check"
    /\ th_pc' = [th_pc EXCEPT ![t] = IF g_analyzer = None THEN "new" ELSE "return"]
    /\ UNCHANGED <<g_analyzer, cls_instance, nlp_objects, constructions, th_self,
                   th_ret>>
    /\ SingletonFrame

\* nlp.py line 26: if cls._instance is None
NlpNewCheck(t) ==
    /\ th_pc[t] = "new"
    /\ th_pc' = [th_pc EXCEPT ![t] = IF cls_instance = None THEN "new_assign"
                                     ELSE "new_return"]
    /\ UNCHANGED <<g_analyzer, cls_instance, nlp_objects, constructions, th_self,
                   th_ret>>
    /\ SingletonFrame

\* nlp.py line 27: cls._instance = super().__new__(cls)
NlpNewAssign(t) ==
    /\ th_pc[t] = "new_assign"
    /\ cls_instance' = Some(t)
    /\ nlp_objects' = (t :> [model |-> None, tfidf |-> FALSE]) @@ nlp_objects
    /\ th_pc' = [th_pc EXCEPT ![t] = "new_return"]
    /\ UNCHANGED <<g_analyzer, constructions, th_self, th_ret>>
    /\ SingletonFrame

\* nlp.py line 28: return cls._instance
NlpNewReturn(t) ==
    /\ th_pc[t] = "new_return"
    /\ th_self' = [th_self EXCEPT ![t] = cls_instance]
    /\ th_pc' = [th_pc EXCEPT ![t] = "init"]
    /\ UNCHANGED <<g_analyzer, cls_instance, nlp_objects, constructions, th_ret>>
    /\ SingletonFrame

\* nlp.py line 31: if self._model is None
NlpInitCheck(t) ==
    /\ th_pc[t] = "init"
    /\ th_pc' = [th_pc EXCEPT ![t] = IF ModelOf(nlp_objects, th_self[t][1]) = None
                                     THEN "load" ELSE "assign"]
    /\ UNCHANGED <<g_analyzer, cls_instance, nlp_objects, constructions, th_self,
                   th_ret>>
    /\ SingletonFrame

\* nlp.py line 33: self._model = SentenceTransformer(...)
NlpLoadModel(t) ==
    /\ th_pc[t] = "load"
    /\ constructions' = constructions + 1
    /\ nlp_objects' = [nlp_objects EXCEPT ![th_self[t][1]].model = Some(t)]
    /\ th_pc' = [th_pc EXCEPT ![t] = "tfidf"]
    /\ UNCHANGED <<g_analyzer, cls_instance, th_self, th_ret>>
    /\ SingletonFrame

\* nlp.py lines 34-40: self._tfidf = TfidfVectorizer(...)
NlpSetTfidf(t) ==
    /\ th_pc[t] = "tfidf"
    /\ nlp_objects' = [nlp_objects EXCEPT ![th_self[t][1]].tfidf = TRUE]
    /\ th_pc' = [th_pc EXCEPT ![t] = "assign"]
    /\ UNCHANGED <<g_analyzer, cls_instance, constructions, th_self, th_ret>>
    /\ SingletonFrame

\* routes.py line 29: _analyzer = RiskAnalyzer(), whose nlp is the object
\* NLPService() gave this caller.
GetAnalyzerAssign(t) ==
    /\ th_pc[t] = "assign"
    /\ g_analyzer' = Some([id |-> t, nlp |-> th_self[t][1]])
    /\ th_pc' = [th_pc EXCEPT ![t] = "return"]
    /\ UNCHANGED <<cls_instance, nlp_objects, constructions, th_self, th_ret>>
    /\ SingletonFrame

\* routes.py line 30: return _analyzer
GetAnalyzerReturn(t) ==
    /\ th_pc[t] = "return"
    /\ th_ret' = [th_ret EXCEPT ![t] = g_analyzer]
    /\ th_pc' = [th_pc EXCEPT ![t] = "done"]
    /\ UNCHANGED <<g_analyzer, cls_instance, nlp_objects, constructions, th_self>>
    /\ SingletonFrame

SingletonNext ==
    \E t \in Callers :
        \/ GetAnalyzerCheck(t)
        \/ NlpNewCheck(t)
        \/ NlpNewAssign(t)
        \/ NlpNewReturn(t)
        \/ NlpInitCheck(t)
        \/ NlpLoadModel(t)
        \/ NlpSetTfidf(t)
        \/ GetAnalyzerAssign(t)
        \/ GetAnalyzerReturn(t)

\* ------------------------------------------------------------------------
\* NLPService.extract_keywords on the one self._tfidf, concurrent requests
\* ------------------------------------------------------------------------
MaxRequests == 2       \* requests inside extract_keywords() at once

Requests == 1..MaxRequests

\* The texts of one request: two documents.
RequestCorpora == [0..1 -> SUBSET Terms]

\* The feature names a fit on these texts leaves in the vectorizer.
FittedNames(docs) == SortedListOfTerms(Vocabulary(docs))

\* Column of a term in a fitted matrix.
ColumnOf(names, t) == CHOOSE k \in 1..Len(names) : names[k] = t

\* Lines 210-220 for one cluster holding every text, top_n = 1: the column
\* indices argsort()[::-1][:1] may yield on the request's own matrix.
TopColumns(docs) ==
    LET lbls == [d \in DOMAIN docs |-> 0]
    IN  {ColumnOf(FittedNames(docs), ReversedTop(order, 1)[1]) :
            order \in UNION {ArgsortOrders(ClusterTfidf(m, lbls, 0)) :
                                m \in TfidfMatrices(docs)}}

SharedIdle ==
    /\ shared_vocabulary = None
    /\ rq_texts = <<>>
    /\ rq_names = <<>>
    /\ rq_keywords = <<>>
    /\ rq_pc = <<>>

SharedStart ==
    /\ shared_vocabulary = None
    /\ rq_texts \in [Requests -> RequestCorpora]
    /\ rq_names = [r \in Requests |-> None]
    /\ rq_keywords = [r \in Requests |-> None]
    /\ rq_pc = [r \in Requests |-> "fit"]

\* Line 197: self._tfidf.fit_transform(texts) replaces the vocabulary.
SharedFit(r) ==
    /\ rq_pc[r] = "fit"
    /\ ~DfBoundsInvalid(rq_texts[r])
    /\ Vocabulary(rq_texts[r]) # {}
    /\ shared_vocabulary' = Some(FittedNames(rq_texts[r]))
    /\ rq_pc' = [rq_pc EXCEPT ![r] = "names"]
    /\ UNCHANGED <<rq_texts, rq_names, rq_keywords>>
    /\ SharedFrame

\* Line 197: fit_transform raises before it stores a vocabulary.
SharedFitRaises(r) ==
    /\ rq_pc[r] = "fit"
    /\ DfBoundsInvalid(rq_texts[r]) \/ Vocabulary(rq_texts[r]) = {}
    /\ rq_pc' = [rq_pc EXCEPT ![r] = "raised"]
    /\ UNCHANGED <<shared_vocabulary, rq_texts, rq_names, rq_keywords>>
    /\ SharedFrame

\* Line 198: feature_names = self._tfidf.get_feature_names_out()
SharedReadNames(r) ==
    /\ rq_pc[r] = "names"
    /\ rq_names' = [rq_names EXCEPT ![r] = shared_vocabulary]
    /\ rq_pc' = [rq_pc EXCEPT ![r] = "rank"]
    /\ UNCHANGED <<shared_vocabulary, rq_texts, rq_keywords>>
    /\ SharedFrame

\* Lines 201-223: rank the columns of the request's own matrix and name them
\* from feature_names; an index past its end raises IndexError.
SharedRank(r) ==
    /\ rq_pc[r] = "rank"
    /\ \E c \in TopColumns(rq_texts[r]) :
          IF c <= Len(rq_names[r][1])
          THEN /\ rq_keywords' = [rq_keywords EXCEPT ![r] = Some(<<rq_names[r][1][c]>>)]
               /\ rq_pc' = [rq_pc EXCEPT ![r] = "returned"]
          ELSE /\ rq_keywords' = rq_keywords
               /\ rq_pc' = [rq_pc EXCEPT ![r] = "index_error"]
    /\ UNCHANGED <<shared_vocabulary, rq_texts, rq_names>>
    /\ SharedFrame

SharedNext ==
    \E r \in Requests :
        \/ SharedFit(r)
        \/ SharedFitRaises(r)
        \/ SharedReadNames(r)
        \/ SharedRank(r)

\* ------------------------------------------------------------------------
\* Specifications: one service method each, the other methods idle
\* ------------------------------------------------------------------------
SimilarityInit ==
    /\ SimStart
    /\ ClusterIdle
    /\ LayoutIdle
    /\ KeywordsIdle
    /\ AnalyzeIdle
    /\ SingletonIdle
    /\ SharedIdle
    /\ CombineIdle
SpecSimilarity == SimilarityInit /\ [][SimNext]_vars

ClusterInit ==
    /\ SimIdle
    /\ ClusterStart
    /\ LayoutIdle
    /\ KeywordsIdle
    /\ AnalyzeIdle
    /\ SingletonIdle
    /\ SharedIdle
    /\ CombineIdle
SpecCluster == ClusterInit /\ [][ClusterNext]_vars

LayoutInit ==
    /\ SimIdle
    /\ ClusterIdle
    /\ LayoutStart
    /\ KeywordsIdle
    /\ AnalyzeIdle
    /\ SingletonIdle
    /\ SharedIdle
    /\ CombineIdle
SpecLayout == LayoutInit /\ [][LayoutNext]_vars

KeywordsInit ==
    /\ SimIdle
    /\ ClusterIdle
    /\ LayoutIdle
    /\ KeywordsStart
    /\ AnalyzeIdle
    /\ SingletonIdle
    /\ SharedIdle
    /\ CombineIdle
SpecKeywords == KeywordsInit /\ [][KeywordsNext]_vars

AnalyzeInit ==
    /\ SimIdle
    /\ ClusterIdle
    /\ LayoutIdle
    /\ KeywordsIdle
    /\ AnalyzeStart
    /\ SingletonIdle
    /\ SharedIdle
    /\ CombineIdle
SpecAnalyze == AnalyzeInit /\ [][AnalyzeNext]_vars

SingletonInit ==
    /\ SimIdle
    /\ ClusterIdle
    /\ LayoutIdle
    /\ KeywordsIdle
    /\ AnalyzeIdle
    /\ SingletonStart
    /\ SharedIdle
    /\ CombineIdle
SpecSingleton == SingletonInit /\ [][SingletonNext]_vars

SharedInit ==
    /\ SimIdle
    /\ ClusterIdle
    /\ LayoutIdle
    /\ KeywordsIdle
    /\ AnalyzeIdle
    /\ SingletonIdle
    /\ SharedStart
    /\ CombineIdle
SpecSharedTfidf == SharedInit /\ [][SharedNext]_vars

CombineInit ==
    /\ SimIdle
    /\ ClusterIdle
    /\ LayoutIdle
    /\ KeywordsIdle
    /\ AnalyzeIdle
    /\ SingletonIdle
    /\ SharedIdle
    /\ CombineStart
SpecCombine == CombineInit /\ [][CombineNext]_vars

\* ------------------------------------------------------------------------
\* Properties
\* ------------------------------------------------------------------------

\* ---- properties of find_similar_pairs ----

\* Number of other nodes that row i's descending ranking places before j
\* (higher similarity, or equal similarity and smaller index).
Rank(i, j) ==
    LET sm == compute_similarity_matrix(embeddings)
    IN  Cardinality({m \in Rows(embeddings) \ {i, j} :
                        \/ sm[i][m] > sm[i][j]
                        \/ sm[i][m] = sm[i][j] /\ m < j})

\* j is accepted in row i's walk.
AcceptedInRow(i, j) ==
    /\ i # j
    /\ compute_similarity_matrix(embeddings)[i][j] >= threshold
    /\ Rank(i, j) < max_per_node

IncidentEdges(v) == {e \in edge_set : e[1] = v \/ e[2] = v}

\* C1: the edge set never holds an entry with i = j, never holds two entries
\* for the same unordered pair {i, j}, and every weight is >= threshold.
C1_EdgeSetWellFormed ==
    /\ \A e \in edge_set : e[1] # e[2] /\ e[3] >= threshold
    /\ \A e, f \in edge_set : {e[1], e[2]} = {f[1], f[2]} => e = f

\* C1 witness: the call returned an edge whose endpoints selected each other.
C1_Witness ==
    /\ sim_pc = "done"
    /\ \E e \in edge_set : AcceptedInRow(e[1], e[2]) /\ AcceptedInRow(e[2], e[1])

DensityPoor ==
    /\ hdb_report # None
    /\ \/ hdb_report[1].n_clusters < 2
       \/ 2 * hdb_report[1].n_noise > n_samples

DistinctClusterLabels(labels) == LabelSet(labels) \ {-1}

\* C3: for n < 3 samples cluster() returns label 0 and confidence 1 for every
\* sample and n_clusters = 1, whatever method and k are, and enters neither
\* density clustering nor centroid clustering.
C3_SmallSampleSingleCluster ==
    (cl_pc # "idle" /\ n_samples < 3) =>
        /\ calls = <<>>
        /\ umap = "not_run"
        /\ cl_pc \in {"cluster", "returned"}
        /\ cl_pc = "returned" =>
              /\ DOMAIN result[1].labels = 0..(n_samples - 1)
              /\ \A i \in 0..(n_samples - 1) :
                    /\ result[1].labels[i] = 0
                    /\ result[1].probabilities[i] = ProbOne
              /\ result[1].n_clusters = 1

\* C3 witness: two samples, centroid clustering requested with a k, returned.
C3_Witness ==
    /\ cl_pc = "returned"
    /\ n_samples = 2
    /\ method = "kmeans"
    /\ k_arg # None

\* C4: when density clustering reported fewer than 2 clusters or more than 50%
\* noise, the returned result has no point labelled -1 and its n_clusters is
\* the k the fallback chose; otherwise (noise of exactly 50% included) the
\* density result is returned unchanged.
C4_FallbackOnPoorDensityResult ==
    /\ DensityPoor => cl_error = None
    /\ (cl_pc = "returned" /\ DensityPoor) =>
          /\ NoiseCount(result[1].labels) = 0
          /\ calls = <<"hdbscan", "kmeans">>
          /\ kmeans_k # None
          /\ result[1].n_clusters = kmeans_k[1]
    /\ (cl_pc = "returned" /\ hdb_report # None /\ ~DensityPoor) =>
          /\ result = hdb_result
          /\ HdbscanNClusters(result[1].labels) = hdb_report[1].n_clusters
          /\ NoiseCount(result[1].labels) = hdb_report[1].n_noise
          /\ result[1].reduced_embeddings # None

\* C4 witness: two clusters but more than half of the points noise, and the
\* fallback's result returned with the k found by the search.
C4_Witness ==
    /\ cl_pc = "returned"
    /\ hdb_report # None
    /\ hdb_report[1].n_clusters >= 2
    /\ 2 * hdb_report[1].n_noise > n_samples
    /\ n_samples >= 5
    /\ result[1].n_clusters = 4

\* C5: within one call the strategies run in the order density, centroid:
\* each is entered at most once, density never after centroid, and the result
\* returned is the first acceptable one.
C5_StrategyOrder ==
    /\ calls \in {<<>>, <<"hdbscan">>, <<"kmeans">>, <<"hdbscan", "kmeans">>}
    /\ (cl_pc = "returned" /\ calls = <<"hdbscan">>) =>
          /\ result = hdb_result
          /\ ~DensityPoor
    /\ (cl_pc = "returned" /\ calls = <<"hdbscan", "kmeans">>) =>
          /\ DensityPoor
          /\ result[1].reduced_embeddings = None
    /\ (cl_pc = "returned" /\ calls = <<"kmeans">>) =>
          /\ hdb_report = None
          /\ result[1].reduced_embeddings = None

\* C5 witness: density clustering ran, was not acceptable, centroid clustering
\* ran after it and its result was returned.
C5_Witness ==
    /\ cl_pc = "returned"
    /\ calls = <<"hdbscan", "kmeans">>
    /\ method = "hdbscan"

\* C6: in every result cluster() returns, n_clusters is the number of distinct
\* labels other than -1 occurring in labels.
C6_NClustersCountsDistinctLabels ==
    cl_pc = "returned" =>
        result[1].n_clusters = Cardinality(DistinctClusterLabels(result[1].labels))

\* C7: an error raised inside density clustering is caught and centroid
\* clustering is attempted exactly once; the call fails only if that fails.
C7_DensityErrorFallsBack ==
    (cl_pc = "raised" /\ "hdbscan" \in {calls[i] : i \in DOMAIN calls}) =>
        /\ calls = <<"hdbscan", "kmeans">>
        /\ cl_error = Some("kmeans")

\* C9: UMAP is attempted only for more than 50 features and at least 5
\* samples; when it is skipped or fails, density clustering runs on the
\* original matrix and the failure itself never leaves cluster().
C9_ReductionFallsBackToOriginal ==
    /\ umap # "not_run" => n_features > 50 /\ n_samples >= 5
    /\ (reduced # None /\ (n_features <= 50 \/ n_samples < 5)) =>
          /\ umap = "not_run"
          /\ reduced = Some("embeddings")
    /\ umap = "failed" =>
          /\ reduced = Some("embeddings")
          /\ cl_pc \in {"hdbscan_fit", "hdbscan_done", "cluster_kmeans",
                        "find_k", "kmeans_fit", "returned", "raised"}
          /\ cl_pc = "raised" => cl_error = Some("hdbscan")
          /\ hdb_report # None /\ cl_pc = "hdbscan_done" =>
                hdb_result[1].reduced_embeddings = Some("embeddings")
    /\ umap = "ok" => reduced = Some("umap")

\* C9 witness: UMAP failed and the density result computed on the original
\* matrix was returned.
C9_Witness ==
    /\ umap = "failed"
    /\ cl_pc = "returned"
    /\ result[1].reduced_embeddings = Some("embeddings")

\* ---- properties of compute_layout() ----

\* The central region [0.1*width, 0.9*width] x [0.1*height, 0.9*height].
InCentralRegion(p) ==
    /\ 10 * p[1] >= width /\ 10 * p[1] <= 9 * width
    /\ 10 * p[2] >= height /\ 10 * p[2] <= 9 * height

Dist2(p, q) == (p[1] - q[1]) * (p[1] - q[1]) + (p[2] - q[2]) * (p[2] - q[2])

\* C8: when the spring solver fails nothing is raised: every vertex gets a
\* position inside the central region, and extraction and the overlap pass
\* then run on those positions as they do after the solver (anchors extracted
\* as cluster positions, noise nodes and nodes at distance >= 40 left in
\* place, closer nodes pushed out to distance 40 within rounding).
C8_SolverFailureFallsBackToRandom ==
    solver = "failed" =>
        /\ lay_pc \in {"extract", "spread", "returned"}
        /\ pos # None
        /\ DOMAIN pos[1] = G[1].nodes
        /\ \A v \in G[1].nodes : InCentralRegion(pos[1][v])
        /\ lay_pc \in {"spread", "returned"} =>
              /\ DOMAIN node_positions = {nodes[i] : i \in DOMAIN nodes}
              /\ DOMAIN cluster_positions = UniqueClusters(cluster_labels) \ {-1}
              /\ \A c \in DOMAIN cluster_positions :
                    cluster_positions[c] = pos[1][ClusterNode(c)]
        /\ lay_pc = "returned" =>
              \A i \in DOMAIN nodes :
                 LET placed == pos[1][nodes[i]]
                     final == node_positions[nodes[i]]
                 IN  IF cluster_labels[i] = -1 THEN final = placed
                     ELSE LET c == cluster_positions[cluster_labels[i]]
                          IN  IF Dist2(placed, c) >= 40 * 40 THEN final = placed
                              ELSE /\ Dist2(final, c) >= 39 * 39
                                   /\ Dist2(final, c) <= 41 * 41

\* C8 witness: the solver failed, the call returned, and the overlap pass
\* moved a node away from its cluster's randomly placed anchor.
C8_Witness ==
    /\ solver = "failed"
    /\ lay_pc = "returned"
    /\ \E i \in DOMAIN nodes :
          /\ cluster_labels[i] # -1
          /\ node_positions[nodes[i]] # pos[1][nodes[i]]
          /\ Dist2(pos[1][nodes[i]], cluster_positions[cluster_labels[i]]) > 0

\* ---- properties of extract_keywords() ----

\* C10: the entry for label -1 is exactly ["unclustered"], whatever the texts
\* and their term weights are; it exists exactly when some text is labelled -1.
C10_NoiseKeywordsAreFixed ==
    /\ -1 \in DOMAIN keywords => keywords[-1] = <<"unclustered">>
    /\ kw_pc = "returned" =>
          ((-1 \in DOMAIN keywords) <=> (\E i \in DOMAIN kw_labels : kw_labels[i] = -1))

\* C10 witness: a returned dict with the -1 entry, for texts labelled -1 whose
\* terms carry positive weights.
C10_Witness ==
    /\ kw_pc = "returned"
    /\ -1 \in DOMAIN keywords
    /\ \E i \in DOMAIN kw_labels :
          /\ kw_labels[i] = -1
          /\ \E t \in DOMAIN tfidf_matrix[i] : tfidf_matrix[i][t] > 0

\* Term a is ranked before term b: heavier averaged weight, or equal weight
\* and alphabetically first.
RankedBefore(w, a, b) == w[a] > w[b] \/ (w[a] = w[b] /\ TermBefore(a, b))

\* C11: for every non-noise cluster the returned list is the top-N terms by
\* descending averaged weight, terms of equal averaged weight in
\* lexicographic order.
C11_TopTermsTiesLexicographic ==
    kw_pc = "returned" =>
        \A l \in DOMAIN keywords \ {-1} :
            LET w == ClusterTfidf(tfidf_matrix, kw_labels, l)
                ks == keywords[l]
                listed == {ks[a] : a \in 1..Len(ks)}
            IN  /\ Len(ks) = Min2(top_n, Cardinality(Vocabulary(texts)))
                /\ \A a, b \in 1..Len(ks) : a < b => RankedBefore(w, ks[a], ks[b])
                /\ \A a \in 1..Len(ks) :
                      \A t \in Vocabulary(texts) \ listed : RankedBefore(w, ks[a], t)

\* ---- further properties of compute_layout() ----

InCanvas(p) == p[1] >= 0 /\ p[1] <= width /\ p[2] >= 0 /\ p[2] <= height

\* C12: every returned node position and cluster position lies within the
\* canvas rectangle [0, width] x [0, height], after the solver, after the
\* random fallback and after the overlap-resolution pass.
C12_PositionsWithinCanvas ==
    lay_pc = "returned" =>
        /\ \A v \in DOMAIN node_positions : InCanvas(node_positions[v])
        /\ \A c \in DOMAIN cluster_positions : InCanvas(cluster_positions[c])

\* final lies from c in the direction of placed, within rounding to whole units.
SameDirection(c, placed, final) ==
    LET dx == placed[1] - c[1]
        dy == placed[2] - c[2]
        fx == final[1] - c[1]
        fy == final[2] - c[2]
        cross == fx * dy - fy * dx
    IN  /\ fx * dx >= 0
        /\ fy * dy >= 0
        /\ cross * cross <= dx * dx + dy * dy

\* C13: after compute_layout every non-noise node is at distance >= 40 (within
\* rounding) from its cluster's returned position: a node placed closer than 40
\* is moved radially to distance 40, a node placed on the cluster position goes
\* to distance 40 at angle index * 2.39996, and noise nodes, cluster positions
\* and nodes placed at distance >= 40 are as the placement left them.
C13_MinimumSeparation ==
    lay_pc = "returned" /\ DOMAIN nodes # {} =>
        /\ \A c \in DOMAIN cluster_positions :
              cluster_positions[c] = pos[1][ClusterNode(c)]
        /\ \A i \in DOMAIN nodes :
              LET placed == pos[1][nodes[i]]
                  final == node_positions[nodes[i]]
              IN  IF cluster_labels[i] = -1 THEN final = placed
                  ELSE LET c == cluster_positions[cluster_labels[i]]
                           d2 == Dist2(placed, c)
                       IN  /\ Dist2(final, c) >= 39 * 39
                           /\ d2 >= 40 * 40 => final = placed
                           /\ d2 < 40 * 40 => Dist2(final, c) <= 41 * 41
                           /\ d2 < 40 * 40 /\ d2 > 0 => SameDirection(c, placed, final)
                           /\ d2 = 0 =>
                                 /\ Abs(1000 * (final[1] - c[1]) - 40 * GoldenAngle(i)[1]) <= 500
                                 /\ Abs(1000 * (final[2] - c[2]) - 40 * GoldenAngle(i)[2]) <= 500

\* C13 witness: a returned layout in which one node was pushed radially and
\* another, placed on its cluster's position, was put on the circle.
C13_Witness ==
    /\ lay_pc = "returned"
    /\ \E i, j \in DOMAIN nodes :
          /\ cluster_labels[i] # -1 /\ cluster_labels[j] # -1
          /\ Dist2(pos[1][nodes[i]], cluster_positions[cluster_labels[i]]) \in 1..1599
          /\ Dist2(pos[1][nodes[j]], cluster_positions[cluster_labels[j]]) = 0
          /\ Dist2(node_positions[nodes[i]], cluster_positions[cluster_labels[i]]) >= 39 * 39
          /\ Dist2(node_positions[nodes[j]], cluster_positions[cluster_labels[j]]) >= 39 * 39

\* ---- properties of analyze() and embed_risks() ----

Started == an_pc \notin {"idle", "start"}

\* C14: analyze() on an empty record list returns a response with empty
\* nodes, edges and clusters, raises nothing and calls no stage.
C14_EmptyRequestReturnsEmpty ==
    Started /\ DOMAIN risks = {} =>
        /\ an_pc = "returned"
        /\ an_error = None
        /\ response # None
        /\ response[1].nodes = <<>>
        /\ response[1].edges = <<>>
        /\ response[1].clusters = <<>>
        /\ stages = <<>>

\* C14 witness: the call on the empty list has returned.
C14_Witness == an_pc = "returned" /\ DOMAIN risks = {} /\ response # None

AllBlank ==
    /\ DOMAIN risks # {}
    /\ \A i \in DOMAIN risks : combine_risk_text(risks[i]) = <<>>

\* C15: analyze() on a non-empty list whose records all canonicalize to empty
\* text raises ValueError out of the embedding stage: clustering, similarity
\* and layout never run and no response is returned.
C15_AllBlankRaisesValueError ==
    Started /\ AllBlank =>
        /\ an_pc = "raised"
        /\ an_error = Some("ValueError")
        /\ response = None
        /\ stages = <<"embed">>

\* C15 witness: two blank records were rejected.
C15_Witness ==
    an_pc = "raised" /\ AllBlank /\ Cardinality(DOMAIN risks) >= 2

\* C16: embed_risks returns one row per record and every row has norm 1,
\* also when some but not all records canonicalize to empty text.
C16_EveryRowUnitNorm ==
    an_embeddings # None =>
        /\ DOMAIN an_embeddings[1] = DOMAIN risks
        /\ \A i \in DOMAIN risks : Dot(an_embeddings[1][i], an_embeddings[1][i]) = 100

IsMembershipEdgeOf(e, node) ==
    e = [source |-> <<"cluster_", node.cluster>>, target |-> node.id,
         weight |-> 30, edge_type |-> "membership"]

\* C17: the returned edge list is the similarity edges plus exactly one
\* membership edge ("cluster_<label>" -> node id, weight 0.3) per node whose
\* label is not -1, and no membership edge for a noise node.
C17_EdgesAreSimilarityPlusMembership ==
    an_pc = "returned" /\ DOMAIN risks # {} =>
        LET es == response[1].edges
            ns == response[1].nodes
            simIdx == {k \in DOMAIN es : es[k].edge_type = "similarity"}
            memIdx == {k \in DOMAIN es : es[k].edge_type = "membership"}
        IN  /\ simIdx \cup memIdx = DOMAIN es
            /\ Cardinality(simIdx) = Cardinality(similar_pairs)
            /\ {<<es[k].source, es[k].target, es[k].weight>> : k \in simIdx}
                  = {<<NodeId(pr[1]), NodeId(pr[2]), pr[3]>> : pr \in similar_pairs}
            /\ \A i \in DOMAIN ns :
                  LET mine == {k \in memIdx : es[k].target = ns[i].id}
                  IN  IF ns[i].cluster = -1 THEN mine = {}
                      ELSE /\ Cardinality(mine) = 1
                           /\ \A k \in mine : IsMembershipEdgeOf(es[k], ns[i])
            /\ \A k \in memIdx : \E i \in DOMAIN ns : es[k].target = ns[i].id

\* C17 witness: a response with a similarity edge, a clustered node and a
\* noise node.
C17_Witness ==
    /\ an_pc = "returned"
    /\ similar_pairs # {}
    /\ \E i, j \in DOMAIN risks :
          /\ cluster_result[1].labels[i] = -1
          /\ cluster_result[1].labels[j] # -1
    /\ Len(response[1].edges) > Cardinality(similar_pairs)

\* C18: the metadata names the clustering method actually used (the centroid
\* method when the fallback was substituted), and its noise-point count is
\* the number of returned nodes labelled -1.
C18_MetadataNamesMethodUsed ==
    an_pc = "returned" /\ DOMAIN risks # {} =>
        LET md == response[1].metadata
            ns == response[1].nodes
        IN  /\ strategy = "hdbscan" => md.clustering_method = "hdbscan"
            /\ strategy = "kmeans" => md.clustering_method # "hdbscan"
            /\ md.n_noise_points = Cardinality({i \in DOMAIN ns : ns[i].cluster = -1})

\* ---- properties of the process-wide singletons under concurrency ----

AllCallersDone == DOMAIN th_pc = Callers /\ \A t \in Callers : th_pc[t] = "done"

\* C19: when several callers perform the first access concurrently, the
\* underlying model is constructed exactly once and every caller ends up with
\* the same, fully initialized instance.
C19_OneConstructionOneInstance ==
    AllCallersDone =>
        /\ constructions = 1
        /\ \A t, u \in Callers : th_ret[t] = th_ret[u]
        /\ \A t \in Callers :
              /\ nlp_objects[th_ret[t][1].nlp].model # None
              /\ nlp_objects[th_ret[t][1].nlp].tfidf

BlankOrMarker(f) ==
    \/ Strip(f) = <<>>
    \/ Len(Strip(f)) = 1 /\ LowerWord(Strip(f)[1]) \in MarkerWords

\* The field's words separated by single spaces, `times` times, or nothing
\* when the field is to be dropped.
Emitted(f, times) ==
    IF BlankOrMarker(f) THEN <<>>
    ELSE LET words == SplitWords(f)
             one == JoinSpace([k \in 1..Len(words) |-> <<words[k]>>])
         IN  [k \in 1..times |-> one]

\* C21: combine_risk_text drops every field whose trimmed, case-insensitive
\* value is empty or a marker (na, n/a, nan, none), a marker inside whitespace
\* included; the other fields come out in the order title, title, cause,
\* description; the result is empty only if every field was dropped.
C21_DropsBlankAndMarkerFields ==
    cb_pc = "returned" =>
        /\ cb_text[1] = JoinSpace(Emitted(cb_risk.title, 2) \o Emitted(cb_risk.cause, 1)
                                     \o Emitted(cb_risk.description, 1))
        /\ cb_text[1] = <<>> =>
              /\ BlankOrMarker(cb_risk.title)
              /\ BlankOrMarker(cb_risk.cause)
              /\ BlankOrMarker(cb_risk.description)

\* ---- properties of cluster_kmeans() and _find_optimal_k() ----

\* Centroid clustering produced the returned result.
KMeansReturned == cl_pc = "returned" /\ distances # None

\* Distance of point i to the centroid it is assigned to.
OwnDistance(i) == distances[1][i][result[1].labels[i]]

\* 1 - d / m in fixed point; 1 when every distance is 0.
OneMinusRatio(d, m) == IF m = 0 THEN ProbOne ELSE ProbOne - (d * ProbOne) \div m

\* C22: in centroid clustering the confidence of each point is
\* 1 - (distance to its own centroid / the largest distance from any point to
\* any centroid), and every confidence lies in [0, 1].
C22_ConfidenceOverLargestDistance ==
    KMeansReturned =>
        LET D == distances[1]
            all == {D[i][c] : <<i, c>> \in (DOMAIN D) \X (0..(kmeans_k[1] - 1))}
            largest == CHOOSE m \in all : \A d \in all : d <= m
        IN  \A i \in DOMAIN D :
               /\ result[1].probabilities[i] = OneMinusRatio(OwnDistance(i), largest)
               /\ result[1].probabilities[i] \in 0..ProbOne

\* C22 as amended: the confidence of each point is 1 - (distance to its own
\* centroid / the largest distance of any point to its own centroid), 1 for
\* every point when all of them sit on their centroids, and every confidence
\* lies in [0, 1].
C22_ConfidenceOverLargestOwnDistance ==
    KMeansReturned =>
        LET D == distances[1]
            own == {OwnDistance(i) : i \in DOMAIN D}
            largest == CHOOSE m \in own : \A d \in own : d <= m
        IN  \A i \in DOMAIN D :
               /\ result[1].probabilities[i] = OneMinusRatio(OwnDistance(i), largest)
               /\ result[1].probabilities[i] \in 0..ProbOne

\* C22 witness: centroid clustering returned with points at different
\* distances from their centroids and other centroids farther away than the
\* farthest own centroid; the farthest point has confidence 0.
C22_Witness ==
    /\ KMeansReturned
    /\ \E i, j \in DOMAIN distances[1] :
          /\ OwnDistance(i) < OwnDistance(j)
          /\ \A m \in DOMAIN distances[1] : OwnDistance(m) <= OwnDistance(j)
          /\ result[1].probabilities[j] = 0
          /\ result[1].probabilities[i] > 0
          /\ \E c \in DOMAIN distances[1][j] : distances[1][j][c] > OwnDistance(j)

\* The candidates tried so far that were scorable (at least 2 distinct labels).
ScorableCandidates(seen) == {3 + (idx - 1) : idx \in {i \in DOMAIN seen : seen[i] # None}}

CandidateScore(seen, k) == seen[k - 3 + 1][1]

\* The scorable candidate with the best score, the smallest one on ties; the
\* lower bound 3 when no candidate was scorable.
BestCandidate(seen) ==
    IF ScorableCandidates(seen) = {} THEN 3
    ELSE CHOOSE k \in ScorableCandidates(seen) :
            \A m \in ScorableCandidates(seen) :
                \/ CandidateScore(seen, k) > CandidateScore(seen, m)
                \/ CandidateScore(seen, k) = CandidateScore(seen, m) /\ k <= m

\* cluster_kmeans() was entered without a k.
KUnspecified == calls = <<"hdbscan", "kmeans">> \/ (calls = <<"kmeans">> /\ k_arg = None)

UpperCandidate == IF n_samples - 1 < 15 THEN n_samples - 1 ELSE 15

C23_DuringSearch ==
    /\ cl_pc = "find_k" =>
          /\ UpperCandidate > 3
          /\ find_k[1].k = 3 + Len(find_k[1].seen)
          /\ find_k[1].k <= UpperCandidate + 1
          /\ find_k[1].best_k = BestCandidate(find_k[1].seen)
    /\ (cl_pc \in {"kmeans_fit", "returned"} /\ KUnspecified) =>
          /\ kmeans_k[1] >= 3 /\ kmeans_k[1] <= 15
          /\ kmeans_k[1] <= n_samples
          /\ UpperCandidate <= 3 => kmeans_k[1] = 3
          /\ UpperCandidate > 3 => kmeans_k[1] <= UpperCandidate

C23_AtReturn ==
    (cl_pc = "find_k" /\ cl_pc' # "find_k") =>
        /\ Len(find_k[1].seen) = UpperCandidate - 3 + 1
        /\ kmeans_k' = Some(BestCandidate(find_k[1].seen))

\* C23: when k is unspecified the k chosen is the candidate of
\* [3, min(15, n-1)] with the best score among those giving at least 2
\* distinct labels, the smallest such k on ties; it is 3 when the range has no
\* candidate above 3 or no candidate is scorable; and 3 <= k <= 15, k <= n.
C23_OptimalKIsBestScorableCandidate ==
    []C23_DuringSearch /\ [][C23_AtReturn]_vars

\* C23 witness: the search is over; two candidates tied on the best score
\* and the smaller of them is the choice.
C23_Witness ==
    /\ cl_pc = "find_k"
    /\ find_k[1].k > find_k[1].max_k
    /\ \E a, b \in DOMAIN find_k[1].seen :
          /\ a < b
          /\ find_k[1].seen[a] # None
          /\ find_k[1].seen[a] = find_k[1].seen[b]
          /\ \A c \in DOMAIN find_k[1].seen :
                find_k[1].seen[c] # None => find_k[1].seen[c][1] <= find_k[1].seen[a][1]
          /\ \A c \in 1..(a - 1) : find_k[1].seen[c] # find_k[1].seen[a]
          /\ find_k[1].best_k = 3 + (a - 1)

\* ---- properties of cluster()'s parameter adjustment ----

C24_AtDispatch ==
    (cl_pc = "cluster" /\ cl_pc' \in {"cluster_hdbscan", "cluster_kmeans"}) =>
        /\ n_samples >= 3
        /\ IF n_samples < 2 * min_cluster_size
           THEN /\ min_cluster_size' = (IF n_samples \div 2 > 2 THEN n_samples \div 2 ELSE 2)
                /\ min_samples' = min_cluster_size'
           ELSE /\ min_cluster_size' = min_cluster_size
                /\ min_samples' = min_samples

C24_Afterwards ==
    cl_pc # "cluster" => UNCHANGED <<min_cluster_size, min_samples>>

C24_WhenStrategyRuns ==
    cl_pc \in {"cluster_hdbscan", "hdbscan_fit", "cluster_kmeans"} =>
        /\ min_cluster_size >= 2
        /\ min_cluster_size <= n_samples

\* C24: for n >= 3, before either strategy runs: if n < 2*min_cluster_size
\* then min_cluster_size becomes max(2, n//2) and min_samples becomes that
\* value, replacing a caller-supplied min_samples; otherwise both keep their
\* configured values; and 2 <= min_cluster_size <= n when a strategy starts.
C24_SmallDatasetAdjustment ==
    /\ [][C24_AtDispatch]_vars
    /\ [][C24_Afterwards]_vars
    /\ []C24_WhenStrategyRuns

\* C24 witness: three samples (fewer than 2*min_cluster_size for every
\* configuration), density clustering about to run with both parameters at
\* max(2, 3//2) = 2.
C24_Witness ==
    /\ cl_pc = "hdbscan_fit"
    /\ n_samples = 3
    /\ min_cluster_size = 2
    /\ min_samples = 2

\* ---- properties of analyze() on small requests and of its response ----

\* One or two records, each with non-empty canonical text.
SmallRequestWithText ==
    /\ Cardinality(DOMAIN risks) \in {1, 2}
    /\ \A i \in DOMAIN risks : combine_risk_text(risks[i]) # <<>>

\* C25: for a request of exactly 1 or 2 records whose canonical text is
\* non-empty, analyze() completes without error (the keyword stage, fitted
\* with min_df=1 and max_df=0.95 on the request's texts, does not abort it)
\* and returns one node per record, all with cluster label 0, and exactly one
\* cluster summary, with id 0 and size n.
C25_SmallRequestCompletes ==
    (Started /\ SmallRequestWithText) =>
        /\ an_pc # "raised"
        /\ an_error = None
        /\ an_pc = "returned" =>
              /\ DOMAIN response[1].nodes = DOMAIN risks
              /\ \A i \in DOMAIN risks : response[1].nodes[i].cluster = 0
              /\ Len(response[1].clusters) = 1
              /\ response[1].clusters[1].id = 0
              /\ response[1].clusters[1].size = Cardinality(DOMAIN risks)

RECURSIVE SumOfSizes(_)
SumOfSizes(cs) == IF cs = <<>> THEN 0 ELSE Head(cs).size + SumOfSizes(Tail(cs))

\* C26: in every non-empty response over records with unique ids, nodes has
\* exactly one entry per input record, in input order, carrying the label
\* assigned to that record's index; clusters has exactly one entry per
\* distinct label occurring in the nodes (-1 included), in ascending id order;
\* each entry's size is the number of nodes with that label, and the sizes sum
\* to the number of records.
C26_NodesAndClustersMatchLabels ==
    (an_pc = "returned" /\ DOMAIN risks # {}) =>
        LET ns == response[1].nodes
            cs == response[1].clusters
        IN  /\ DOMAIN ns = DOMAIN risks
            /\ \A i \in DOMAIN risks :
                  /\ ns[i].id = risks[i].id
                  /\ ns[i].cluster = cluster_result[1].labels[i]
            /\ {cs[k].id : k \in DOMAIN cs} = {ns[i].cluster : i \in DOMAIN ns}
            /\ \A k \in DOMAIN cs : k < Len(cs) => cs[k].id < cs[k + 1].id
            /\ \A k \in DOMAIN cs :
                  cs[k].size = Cardinality({i \in DOMAIN ns : ns[i].cluster = cs[k].id})
            /\ SumOfSizes(cs) = Cardinality(DOMAIN risks)

\* C26 witness: a response over three records, one of them noise and the
\* other two in different clusters: three summaries, -1 first.
C26_Witness ==
    /\ an_pc = "returned"
    /\ Cardinality(DOMAIN risks) = 3
    /\ \E i, j, m \in DOMAIN risks :
          /\ response[1].nodes[m].cluster = -1
          /\ response[1].nodes[i].cluster = 0
          /\ response[1].nodes[j].cluster = 1
    /\ Len(response[1].clusters) = 3
    /\ response[1].clusters[1].id = -1

====
